---- MODULE Spec2Model ----
(***************************************************************************)
(* A model of the sol-mm market maker: the Risk Gate (risk_manager.py),    *)
(* the Quoting Engine (strategy.py) and the Exchange Gateway as the core   *)
(* sees it (exchange.py: every call returns a value or absent/false and    *)
(* never raises into the core).                                            *)
(*                                                                         *)
(* Units.  Inventory and order amounts are whole SOL, balances whole USDC. *)
(* Volatility is in basis points (1e-4).  Spreads are in units of 1e-7.    *)
(* Prices are exact numerators over PriceDen = 2 * SpreadScale, order      *)
(* sizes exact numerators over SizeDen.  The inputs are chosen so that     *)
(* every division of the code is exact in these units.                     *)
(***************************************************************************)
EXTENDS Integers, Sequences, FiniteSets, TLC

VARIABLES
    today,                \* datetime.now().date(), as a day number
    now,                  \* time.time(), in units of 100 s
    \* RiskManager
    trading_paused, pause_reason, rm_current_inventory, daily_trades,
    last_reset_date,
    \* MarketMakingStrategy (configuration and state)
    order_tiers, base_spread,
    current_spot_orders, last_mid_price, daily_volume, last_volume_reset,
    consecutive_no_fills, last_trade_time,
    \* the exchange, as far as the core can observe it
    next_order_id,
    \* observation of the last operation: its inputs, gateway calls, outcome
    last_in, call_log, result,
    \* time.time() as the cache layer reads it, in ms since construction,
    \* and the number of times the model has advanced it
    clock_ms, ticks,
    \* PerformanceOptimizer
    price_cache, order_book_cache, last_api_call, api_call_count,
    api_call_times, operation_times,
    \* VolatilityCalculator
    ohlcv_cache, atr_cache, volatility_cache,
    \* the fetch workers of a cycle: the cycle's position, each worker's
    \* position and the counter value it has loaded, cycles begun
    cycle_pc, worker_pc, worker_reg, cycles,
    \* history: every sample handed to record_api_call, in order; the time
    \* of the last rate_limit_api_call invocation per operation name
    recorded, last_invocation,
    \* what the last cache layer operation returned
    ret,
    \* MarketMaker: the flag of the polling loop, the duration of the last
    \* strategy cycle in ms, the loop's cycle_count modulo 10, where run()
    \* stands, and whether stop() has been called since construction
    running, last_cycle_time, cycle_count, main_pc, stop_called,
    \* HyperliquidExchange: exchange.options['defaultType'], and history:
    \* the operation and the defaultType of every upstream request sent
    default_type, issued,
    \* the threads looking up one cache entry: where each stands, the entry
    \* it has read, and what its lookup returned
    lookup_pc, lookup_entry, lookup_ret

vars == <<today, now, trading_paused, pause_reason, rm_current_inventory,
          daily_trades, last_reset_date, order_tiers, base_spread,
          current_spot_orders, last_mid_price, daily_volume,
          last_volume_reset, consecutive_no_fills, last_trade_time,
          next_order_id, last_in, call_log, result, clock_ms, ticks,
          price_cache, order_book_cache, last_api_call, api_call_count,
          api_call_times, operation_times, ohlcv_cache, atr_cache,
          volatility_cache, cycle_pc, worker_pc, worker_reg, cycles,
          recorded, last_invocation, ret, running, last_cycle_time,
          cycle_count, main_pc, stop_called, default_type, issued,
          lookup_pc, lookup_entry, lookup_ret>>

gate_vars == <<trading_paused, pause_reason, rm_current_inventory,
               daily_trades, last_reset_date>>

strategy_vars == <<current_spot_orders, last_mid_price, daily_volume,
                   last_volume_reset, consecutive_no_fills, last_trade_time>>

config_vars == <<order_tiers, base_spread>>

exchange_vars == <<next_order_id>>

optimizer_vars == <<price_cache, order_book_cache, last_api_call,
                    api_call_count, api_call_times, operation_times,
                    recorded, last_invocation>>

volatility_vars == <<ohlcv_cache, atr_cache, volatility_cache>>

worker_vars == <<cycle_pc, worker_pc, worker_reg, cycles>>

layer_vars == <<clock_ms, ticks, optimizer_vars, volatility_vars, worker_vars,
                ret>>

core_vars == <<today, now, gate_vars, config_vars, strategy_vars,
               exchange_vars, last_in, call_log, result>>

main_vars == <<running, last_cycle_time, cycle_count, main_pc, stop_called>>

option_vars == <<default_type, issued>>

lookup_vars == <<lookup_pc, lookup_entry, lookup_ret>>

process_vars == <<main_vars, option_vars, lookup_vars>>

---------------------------------------------------------------------------
(* Bounds of the model *)

MaxDay == 2            \* days the clock runs through
Epoch == 10            \* time.time() at construction (units of 100 s)
MaxNow == 14           \* last clock value (units of 100 s)
MaxTrades == 3         \* cap of the daily trade counter
TradesPerDay == 2      \* trading.trades_per_day of the configuration
MaxTiers == 4          \* largest volume.order_tiers of the configuration
MaxOrderId == 6        \* order ids the exchange hands out
MaxNoFills == 6        \* cap of the no-fill counter
MaxDailyVolume == 1200 \* cap of the daily volume, whole SOL

(* Program constants *)

MaxInventory == 10         \* risk.max_inventory
MaxVolatility == 2400      \* risk.max_volatility 0.24, in basis points
MarginBuffer == 2          \* risk.margin_buffer
LowVolatility == 100       \* 0.01
HighVolatility == 200      \* 0.02
MinSpread == 5000          \* volume.min_spread 0.0005
MaxSpread == 50000         \* volume.max_spread 0.0050
SpreadAggression == 8      \* volume.spread_aggression 0.8, in tenths
TierSpacing == 2000        \* volume.tier_spacing 0.0002
MinOrderSize == 6000       \* volume.min_order_size 0.5
MaxOrderSize == 60000      \* volume.max_order_size 5.0
TargetDailyVolume == 1000  \* volume.target_daily_volume
NoFillIdle == 3            \* 300 s without a trade
NoFillLimit == 5           \* consecutive_no_fills > 5
HedgeThreshold == 1        \* 0.01, in hundredths of a SOL

(* Units of the fixed-point representation *)
SpreadScale == 10 ^ 7      \* one spread unit is 1e-7
PriceDen == 2 * SpreadScale
SizeDen == 100 * 120       \* one size unit is 1/12000 SOL

---------------------------------------------------------------------------
(* Values the duck-typed parameters take.  A Python value that reaches    *)
(* the Risk Gate as "inventory" or "balance" is a number, a balance        *)
(* mapping {currency: {free}} or None.                                    *)

None == [kind |-> "none", v |-> 0, usdc |-> 0]
Num(n) == [kind |-> "num", v |-> n, usdc |-> 0]
Balance(base, usdc) == [kind |-> "dict", v |-> base, usdc |-> usdc]

IsNumeric(x) == x.kind = "num"

TypeName(x) == IF x.kind = "dict" THEN "dict"
               ELSE IF x.kind = "none" THEN "NoneType" ELSE "int"

Abs(n) == IF n < 0 THEN -n ELSE n

Min2(a, b) == IF a < b THEN a ELSE b
Max2(a, b) == IF a > b THEN a ELSE b

RECURSIVE Join(_, _)
Join(sep, strs) ==
    IF strs = <<>> THEN ""
    ELSE IF Len(strs) = 1 THEN strs[1]
    ELSE strs[1] \o sep \o Join(sep, Tail(strs))

(* format(n, ".4f") of a whole number *)
Fmt4(n) == ToString(n) \o ".0000"

(* format(v, ".4f") of a volatility given in basis points *)
FmtBp(bp) ==
    LET frac == bp % 10000
        pad == IF frac < 10 THEN "000"
               ELSE IF frac < 100 THEN "00"
               ELSE IF frac < 1000 THEN "0" ELSE ""
    IN ToString(bp \div 10000) \o "." \o pad \o ToString(frac)

---------------------------------------------------------------------------
(* RiskManager *)

SafeAbs(value) == IF IsNumeric(value) THEN Abs(value.v) ELSE 0

SafeFmt(value) == IF IsNumeric(value) THEN Fmt4(value.v) ELSE TypeName(value)

CheckInventoryLimits(inventory) ==
    IF SafeAbs(inventory) > MaxInventory
    THEN [safe |-> FALSE,
          reason |-> "Inventory " \o SafeFmt(inventory) \o " exceeds limit "
                     \o Fmt4(MaxInventory)]
    ELSE [safe |-> TRUE, reason |-> ""]

CheckVolatilityLimits(volatility) ==
    IF volatility > MaxVolatility
    THEN [safe |-> FALSE,
          reason |-> "Volatility " \o FmtBp(volatility) \o " exceeds limit "
                     \o "0.24"]
    ELSE [safe |-> TRUE, reason |-> ""]

(* Open positions are those with size != 0; the division raises when a    *)
(* position's leverage is 0.                                              *)
OpenPositions(positions) == SelectSeq(positions, LAMBDA p : p.size # 0)

RECURSIVE SumMargin(_)
SumMargin(positions) ==
    IF positions = <<>> THEN 0
    ELSE Abs(Head(positions).notional \div Head(positions).leverage)
         + SumMargin(Tail(positions))

DivisionRaises(positions) ==
    \E i \in 1..Len(positions) :
        positions[i].size # 0 /\ positions[i].leverage = 0

CheckMarginRequirements(balance, positions) ==
    IF DivisionRaises(positions)
    THEN [safe |-> FALSE, reason |-> "Error checking margin: division by zero"]
    ELSE IF balance.kind # "dict"
    THEN [safe |-> FALSE,
          reason |-> "Error checking margin: '" \o TypeName(balance)
                     \o "' object has no attribute 'get'"]
    ELSE LET total_margin == SumMargin(OpenPositions(positions))
             available_balance == balance.usdc
         IN IF total_margin * MarginBuffer > available_balance
            THEN [safe |-> FALSE,
                  reason |-> "Insufficient margin: " \o Fmt4(available_balance)
                             \o " < " \o Fmt4(total_margin * MarginBuffer)]
            ELSE [safe |-> TRUE, reason |-> ""]

CheckDailyTradeLimit(trades) ==
    IF trades >= TradesPerDay
    THEN [safe |-> FALSE,
          reason |-> "Daily trade limit reached: " \o ToString(trades) \o "/"
                     \o ToString(TradesPerDay)]
    ELSE [safe |-> TRUE, reason |-> ""]

(* a reset that does not look at the date *)
ResetOnEveryCheck(trades, reset_date, date) ==
    [daily_trades |-> 0, last_reset_date |-> date]

(* reset_daily_metrics: the counter and the date it was last reset on *)
ResetDailyMetrics(trades, reset_date, date) ==
    IF reset_date # date
    THEN [daily_trades |-> 0, last_reset_date |-> date]
    ELSE [daily_trades |-> trades, last_reset_date |-> reset_date]

(* update_inventory stores the value, then formats it with ".4f" for the  *)
(* debug line: a value that is no number raises TypeError there.          *)
UpdateInventoryRaises(inventory) == ~IsNumeric(inventory)

UpdateInventoryError(inventory) ==
    "unsupported format string passed to " \o TypeName(inventory)
    \o ".__format__"

Violations(checks) ==
    LET failed == SelectSeq(checks, LAMBDA c : ~c.safe)
    IN [i \in 1..Len(failed) |-> failed[i].reason]

(* pause_trading / resume_trading *)
(* a pause that keeps the reason there was *)
PauseWithoutReason(g, reason) == [g EXCEPT !.trading_paused = TRUE]

PauseTrading(g, reason) ==
    [g EXCEPT !.trading_paused = TRUE, !.pause_reason = reason]

ResumeTrading(g) ==
    [g EXCEPT !.trading_paused = FALSE, !.pause_reason = ""]

(* a gate that pauses on a violation and never resumes by itself *)
PauseWithoutResume(g, violations) ==
    IF violations # <<>>
    THEN PauseTrading(g, Join("; ", violations))
    ELSE g

(* the end of comprehensive_risk_check: pause on any violation, resume on *)
(* none                                                                    *)
PauseOrResume(g, violations) ==
    IF violations # <<>>
    THEN PauseTrading(g, Join("; ", violations))
    ELSE ResumeTrading(g)

(* comprehensive_risk_check on the gate g =                                *)
(* [trading_paused, pause_reason, current_inventory, daily_trades,         *)
(*  last_reset_date]: the gate afterwards, and what the call returns or    *)
(* raises.                                                                 *)
ComprehensiveRiskCheck(g, inventory, volatility, balance, positions, date) ==
    LET reset == ResetDailyMetrics(g.daily_trades, g.last_reset_date, date)
        violations == Violations(<<CheckInventoryLimits(inventory),
                                   CheckVolatilityLimits(volatility),
                                   CheckMarginRequirements(balance, positions),
                                   CheckDailyTradeLimit(reset.daily_trades)>>)
        g1 == [g EXCEPT !.daily_trades = reset.daily_trades,
                        !.last_reset_date = reset.last_reset_date,
                        !.current_inventory = inventory]
    IN IF UpdateInventoryRaises(inventory)
       THEN [raised |-> TRUE, error |-> UpdateInventoryError(inventory),
             gate |-> g1, is_safe |-> FALSE, violations |-> <<>>]
       ELSE [raised |-> FALSE, error |-> "",
             gate |-> PauseOrResume(g1, violations),
             is_safe |-> Len(violations) = 0, violations |-> violations]

Gate == [trading_paused |-> trading_paused, pause_reason |-> pause_reason,
         current_inventory |-> rm_current_inventory,
         daily_trades |-> daily_trades, last_reset_date |-> last_reset_date]

SetGate(g) ==
    /\ trading_paused' = g.trading_paused
    /\ pause_reason' = g.pause_reason
    /\ rm_current_inventory' = g.current_inventory
    /\ daily_trades' = g.daily_trades
    /\ last_reset_date' = g.last_reset_date

---------------------------------------------------------------------------
(* MarketMakingStrategy: quoting *)

Leverage == 1              \* asset.leverage
InventorySize == 10        \* asset.inventory_size, whole SOL

TierFactors == <<40, 35, 25>>   \* [0.4, 0.35, 0.25], in hundredths

(* a reset that records the date and keeps the volume *)
ResetDateOnly(volume, reset_date, date) ==
    [daily_volume |-> volume, last_volume_reset |-> date]

(* a reset that does not look at the date of the last one *)
ResetVolumeOnEveryCall(volume, reset_date, date) ==
    [daily_volume |-> 0, last_volume_reset |-> date]

(* reset_daily_volume *)
ResetDailyVolume(volume, reset_date, date) ==
    IF reset_date # date
    THEN [daily_volume |-> 0, last_volume_reset |-> date]
    ELSE [daily_volume |-> volume, last_volume_reset |-> reset_date]

(* calculate_aggressive_spread: the spread, and the no-fill counter it     *)
(* leaves behind.  calculate_atr never raises and its value is not used.   *)
CalculateAggressiveSpread(volatility, no_fills, volume) ==
    LET base == IF volatility < LowVolatility THEN (base_spread * 7) \div 10
                ELSE IF volatility > HighVolatility
                THEN (base_spread * 12) \div 10
                ELSE base_spread
        aggressive == (base * (20 - SpreadAggression)) \div 20
        clamped == Max2(MinSpread, Min2(aggressive, MaxSpread))
        reduce == no_fills > NoFillLimit
        filled == IF reduce THEN (clamped * 8) \div 10 ELSE clamped
        final == IF volume * 10 < 3 * TargetDailyVolume
                 THEN (filled * 9) \div 10
                 ELSE IF volume * 10 > 8 * TargetDailyVolume
                 THEN (filled * 11) \div 10
                 ELSE filled
    IN [spread |-> final,
        consecutive_no_fills |-> IF reduce THEN 0 ELSE no_fills]

(* calculate_order_sizes raises IndexError when a tier has no factor *)
OrderSizesRaise(tiers) == tiers > Len(TierFactors)

(* base_size * tier_factor with base_size = inventory_size / (2 * tiers),  *)
(* in units of 1 / SizeDen                                                 *)
TierSize(tiers, i) ==
    LET size == (InventorySize * TierFactors[i] * (SizeDen \div 100))
                \div (2 * tiers)
    IN Max2(MinOrderSize, Min2(size, MaxOrderSize))

CalculateOrderSizes(tiers) == [i \in 1..tiers |-> TierSize(tiers, i)]

(* tiers that narrow instead of widening *)
TierQuoteNarrowing(mid_price, spread, i, size) ==
    LET tier_spread == spread - (i - 1) * TierSpacing
    IN [bid |-> mid_price * (PriceDen - tier_spread),
        ask |-> mid_price * (PriceDen + tier_spread),
        size |-> size]

(* a tier priced from the configured spread instead of the call's *)
TierQuoteOfBaseSpread(mid_price, spread, i, size) ==
    LET tier_spread == base_spread + (i - 1) * TierSpacing
    IN [bid |-> mid_price * (PriceDen - tier_spread),
        ask |-> mid_price * (PriceDen + tier_spread),
        size |-> size]

(* One tier: tier_spread = spread + i * tier_spacing for the 0-based i,    *)
(* bid = mid * (1 - tier_spread / 2), ask = mid * (1 + tier_spread / 2).   *)
TierQuote(mid_price, spread, i, size) ==
    LET tier_spread == spread + (i - 1) * TierSpacing
    IN [bid |-> mid_price * (PriceDen - tier_spread),
        ask |-> mid_price * (PriceDen + tier_spread),
        size |-> size]

(* VolatilityCalculator.adjust_spread with the default scale factor 0.5,   *)
(* for a whole-number atr                                                  *)
AdjustSpread(spread, atr) == (spread * (2 + atr)) \div 2

(* the single tier of the except branch *)
FallbackQuotes(mid_price) ==
    << [bid |-> mid_price * (PriceDen - base_spread),
        ask |-> mid_price * (PriceDen + base_spread),
        size |-> (InventorySize * SizeDen) \div 2] >>

(* calculate_quotes: the tiers, the spread computed for the call and the   *)
(* no-fill counter afterwards                                              *)
CalculateQuotes(mid_price, volatility, no_fills, volume) ==
    LET s == CalculateAggressiveSpread(volatility, no_fills, volume)
    IN [spread |-> s.spread,
        consecutive_no_fills |-> s.consecutive_no_fills,
        fallback |-> OrderSizesRaise(order_tiers),
        quotes |-> IF OrderSizesRaise(order_tiers)
                   THEN FallbackQuotes(mid_price)
                   ELSE LET sizes == CalculateOrderSizes(order_tiers)
                        IN [i \in 1..order_tiers |->
                               TierQuote(mid_price, s.spread, i, sizes[i])]]

---------------------------------------------------------------------------
(* MarketMakingStrategy: orders.  Every gateway call of an operation is    *)
(* logged in call order: ok is cancel_order's return value, or whether     *)
(* place_order returned an id.                                             *)

Range(f) == {f[i] : i \in DOMAIN f}

(* a call on the spot market; place_order there is a limit order whose   *)
(* amount the caller fills in                                             *)
Call(name, id, side, tier, ok) ==
    [call |-> name, id |-> id, side |-> side, tier |-> tier, ok |-> ok,
     symbol |-> "SOL/USDC", amount |-> 0,
     order_type |-> IF name = "place_order" THEN "limit" ELSE "",
     market_type |-> "spot"]

(* a cancellation that forgets to clear the tracked list *)
CancelWithoutClear(orders, refused) ==
    [orders |-> orders,
     log |-> [i \in 1..Len(orders) |->
                 Call("cancel_order", orders[i], "", 0,
                      orders[i] \notin refused)]]

(* cancel_spot_orders: cancel_order for each tracked id in turn, then      *)
(* clear the list.  refused is the set of ids whose cancel_order returns   *)
(* False.                                                                  *)
CancelSpotOrders(orders, refused) ==
    [orders |-> <<>>,
     log |-> [i \in 1..Len(orders) |->
                 Call("cancel_order", orders[i], "", 0,
                      orders[i] \notin refused)]]

(* The loop of place_spot_quotes from call k: call 2i-1 is tier i's bid,   *)
(* call 2i its ask; a tier of size 0 places nothing.  rejected is the set  *)
(* of calls for which place_order returns no id; the exchange accepts no   *)
(* call once its ids are used up.                                          *)
RECURSIVE PlaceFrom(_, _, _, _)
PlaceFrom(quotes, rejected, k, next_id) ==
    IF k > 2 * Len(quotes)
    THEN [ids |-> <<>>, log |-> <<>>, next_id |-> next_id]
    ELSE LET tier == (k + 1) \div 2
             side == IF k % 2 = 1 THEN "buy" ELSE "sell"
             called == quotes[tier].size > 0
             accepted == called /\ k \notin rejected /\ next_id <= MaxOrderId
             rest == PlaceFrom(quotes, rejected, k + 1,
                               IF accepted THEN next_id + 1 ELSE next_id)
         IN [ids |-> IF accepted THEN <<next_id>> \o rest.ids ELSE rest.ids,
             log |-> IF called
                     THEN <<[Call("place_order",
                                  IF accepted THEN next_id ELSE 0,
                                  side, tier, accepted)
                                EXCEPT !.amount = quotes[tier].size]>>
                          \o rest.log
                     ELSE rest.log,
             next_id |-> rest.next_id]

(* place_spot_quotes *)
PlaceSpotQuotes(quotes, orders, next_id, refused, rejected) ==
    LET c == CancelSpotOrders(orders, refused)
        p == PlaceFrom(quotes, rejected, 1, next_id)
    IN [order_ids |-> p.ids,
        orders |-> c.orders \o p.ids,
        log |-> c.log \o p.log,
        next_id |-> p.next_id]

(* calculate_hedge_size negates its argument: a value that is no number    *)
(* raises TypeError                                                        *)
HedgeSizeRaises(spot_inventory) == ~IsNumeric(spot_inventory)

HedgeSizeError(spot_inventory) ==
    "bad operand type for unary -: '" \o TypeName(spot_inventory) \o "'"

CalculateHedgeSize(spot_inventory) == (0 - spot_inventory.v) * Leverage

(* a threshold test that also stops an adjustment of exactly 0.01 *)
AdjustmentNotAbove(adjustment, den) ==
    Abs(adjustment) * 100 <= HedgeThreshold * den

(* abs(adjustment) < 0.01, the adjustment being a number of 1/den SOL *)
AdjustmentTooSmall(adjustment, den) ==
    Abs(adjustment) * 100 < HedgeThreshold * den

(* place_hedge_order: nothing below the threshold or without a perp       *)
(* ticker, else one market order on the perpetual.  The sizes are numbers *)
(* of 1/den SOL.                                                          *)
PlaceHedgeOrder(hedge_size, current_perp_size, den, perp_ticker, accept, next_id) ==
    LET adjustment == hedge_size - current_perp_size
        called == ~AdjustmentTooSmall(adjustment, den) /\ perp_ticker
        accepted == called /\ accept /\ next_id <= MaxOrderId
    IN [placed |-> accepted,
        log |-> IF called
                THEN <<[call |-> "place_order",
                        id |-> IF accepted THEN next_id ELSE 0,
                        side |-> IF adjustment < 0 THEN "sell" ELSE "buy",
                        tier |-> 0, ok |-> accepted,
                        symbol |-> "SOL/USDC:USDC",
                        amount |-> Abs(adjustment),
                        order_type |-> "market", market_type |-> "swap"]>>
                ELSE <<>>,
        amount |-> Abs(adjustment),
        next_id |-> IF accepted THEN next_id + 1 ELSE next_id]

(* update_volume_metrics *)
UpdateVolumeMetrics(trade_size, volume, reset_date, trade_time, no_fills, date, clock) ==
    LET r == ResetDailyVolume(volume, reset_date, date)
    IN IF trade_size > 0
       THEN [daily_volume |-> r.daily_volume + trade_size,
             last_volume_reset |-> r.last_volume_reset,
             last_trade_time |-> clock,
             consecutive_no_fills |-> 0]
       ELSE [daily_volume |-> r.daily_volume,
             last_volume_reset |-> r.last_volume_reset,
             last_trade_time |-> trade_time,
             consecutive_no_fills |-> IF clock - trade_time > NoFillIdle
                                      THEN no_fills + 1 ELSE no_fills]

(* a funding income that keeps the sign of the position *)
FundingIncomeSigned(perp_position, funding_rate, ticker) ==
    IF ~ticker.present THEN 0
    ELSE perp_position * ticker.last * funding_rate

(* calculate_funding_income for a numeric position and rate: the position *)
(* in 1/1000 SOL, the rate in 1/10000, the income in 1e-7                 *)
CalculateFundingIncome(perp_position, funding_rate, ticker) ==
    IF ~ticker.present THEN 0
    ELSE Abs(perp_position) * ticker.last * funding_rate

(* the perp position of the cycle: the size of the first position on the  *)
(* perpetual symbol, else 0                                                *)
RECURSIVE PerpPosition(_)
PerpPosition(positions) ==
    IF positions = <<>> THEN 0
    ELSE IF Head(positions).symbol = "SOL/USDC:USDC" THEN Head(positions).size
    ELSE PerpPosition(Tail(positions))

---------------------------------------------------------------------------
(* What the gateway returns and what callers pass *)

SpotSymbol == "SOL/USDC"
PerpSymbol == "SOL/USDC:USDC"

Pos(symbol, size, notional, leverage) ==
    [symbol |-> symbol, size |-> size, notional |-> notional,
     leverage |-> leverage]

(* get_positions: absent, or a list of positions *)
PositionLists ==
    { <<>>,
      << Pos(PerpSymbol, -5, 600, 2) >>,
      << Pos(PerpSymbol, -5, 600, 0) >>,
      << Pos(PerpSymbol, 0, 600, 0) >>,
      << Pos("ETH/USDC:USDC", 5, 600, 2), Pos(PerpSymbol, -5, 600, 0) >> }

NoPositions == [present |-> FALSE, list |-> <<>>]
PositionReads ==
    {NoPositions} \cup
    {[present |-> TRUE, list |-> l] :
        l \in {<<>>, << Pos(PerpSymbol, -5, 600, 2) >>,
               << Pos(PerpSymbol, -5, 600, 0) >>}}

(* get_balance: absent, or the mapping with the free SOL and USDC *)
Balances == {Balance(5, 500), Balance(15, 1200)}
BalanceReads == {None} \cup Balances

(* get_ticker: absent, or a ticker with its last price *)
Mids == {1, 100}
NoTicker == [present |-> FALSE, last |-> 0]
TickerReads == {NoTicker, [present |-> TRUE, last |-> 100]}

(* The gateway calls of one operation that fail: none, any single one, or *)
(* all of them.                                                           *)
Failures(calls) ==
    {{}} \cup {{c} : c \in calls} \cup {calls}

(* calculate_volatility, in basis points *)
Vols == {50, 2500}

(* the volatility argument of a direct calculate_quotes call *)
QuoteVols == {50, 150, 250}

(* the quotes handed to a direct place_spot_quotes call *)
PlaceMids == {100}
PlaceVols == {150}

(* the trade_size argument of update_volume_metrics, whole SOL *)
TradeSizes == {-300, 0, 300, 600}

(* the arguments of direct hedge and funding calls: sizes in 1/1000 SOL,  *)
(* rates in 1/10000                                                       *)
HedgeDen == 10 ^ 3
HedgeInventories == {0, 5, 10, 1000, -1000}
HedgePositions == {0, -5, -1000}
FundingPositions == {0, -5, -50000, 50000}
FundingRates == {-1, 0, 2}
FundingTickers == {NoTicker, [present |-> TRUE, last |-> 100], [present |-> TRUE, last |-> 143]}

(* the inventory argument of a direct comprehensive_risk_check call *)
InventoryArgs == {Num(10), Num(-15), Balance(15, 1200), Balance(5, 500)}

(* The inputs of the last operation; paused_before is the gate's          *)
(* trading_paused when the operation started.                             *)
NoInput == [ticker |-> NoTicker, balance |-> None, positions |-> NoPositions,
            inventory |-> None, volatility |-> 0, mid_price |-> 0,
            paused_before |-> FALSE, trades_before |-> 0,
            perp_position |-> 0, perp_ticker |-> FALSE, funding_rate |-> 0,
            trade_size |-> 0, volume_before |-> 0]

(* The outcome of the last operation.  outcome is "returned" or "raised"; *)
(* trading_paused_flag says that the result carries trading_paused=True.  *)
NoResult == [op |-> "init", outcome |-> "none", success |-> FALSE,
             error |-> "", trading_paused_flag |-> FALSE,
             is_safe |-> FALSE, violations |-> <<>>, quotes |-> <<>>,
             spread |-> 0, fallback |-> FALSE, order_ids |-> <<>>,
             hedge_order |-> FALSE, funding_income |-> 0]

Returned(op) == [NoResult EXCEPT !.op = op, !.outcome = "returned"]

---------------------------------------------------------------------------
(* Cache & Rate Limiter (performance_optimizer.py) and the caches of the   *)
(* Volatility Estimator (volatility.py).  Times are in milliseconds.  A    *)
(* Python dict is a function whose DOMAIN is the set of keys present.      *)

MaxCacheTicks == 1     \* clock advances in the cache specification
MaxVolTicks == 3       \* clock advances in the volatility specification
MaxLimiterTicks == 2   \* clock advances in the limiter specification
MaxStoreClock == 0     \* latest time of a direct cache store
MaxRecorded == 1       \* record_api_call calls next to the limiter
MaxCalls == 1002       \* record_api_call calls filling the window
MaxTimings == 1        \* timed operations per operation name
MaxReads == 2           \* gateway reads followed
MaxCycles == 1         \* cycles whose workers are followed

PriceCacheTtl == 1000        \* price_cache_ttl 1.0 s
OrderBookCacheTtl == 2000    \* order_book_cache_ttl 2.0 s
OhlcvCacheTtl == 60000       \* ohlcv_cache_ttl 60 s
CacheTtl == 180000           \* cache_ttl 180 s
MinApiInterval == 50         \* min_api_interval 0.05 s
MaxRetries == 3             \* _retry_api_call max_retries
BaseDelay == 200            \* _retry_api_call base_delay, ms
LimiterSleep == 50          \* the sleep of a read the limiter refuses, ms
WindowCapacity == 1000       \* deque(maxlen=1000)
TimingsKept == 100           \* last 100 measurements
AtrPeriod == 14              \* period: int = 14
Timeframe == "1h"

EmptyDict == [k \in {} |-> 0]

DictPut(dict, key, value) ==
    [k \in DOMAIN dict \cup {key} |-> IF k = key THEN value ELSE dict[k]]

DictDel(dict, key) == [k \in DOMAIN dict \ {key} |-> dict[k]]

(* cache[key] = {'data': data, 'timestamp': time.time()} *)
CacheStore(cache, key, data, t) ==
    DictPut(cache, key, [data |-> data, timestamp |-> t])

(* a lookup that hands out the entry whatever its age *)
CacheLookupAnyAge(cache, key, t, ttl) ==
    IF key \in DOMAIN cache
    THEN [value |-> <<cache[key].data>>, cache |-> cache]
    ELSE [value |-> <<>>, cache |-> cache]

(* The lookup every cache uses: the data of a present entry younger than   *)
(* ttl, else nothing, an entry that is too old being deleted on the way.   *)
(* value is <<data>> for a hit and <<>> for None.                          *)
CacheLookup(cache, key, t, ttl) ==
    IF key \in DOMAIN cache
    THEN IF t - cache[key].timestamp < ttl
         THEN [value |-> <<cache[key].data>>, cache |-> cache]
         ELSE [value |-> <<>>, cache |-> DictDel(cache, key)]
    ELSE [value |-> <<>>, cache |-> cache]

CachePriceData(cache, symbol, price_data, t) ==
    CacheStore(cache, symbol, price_data, t)

GetCachedPrice(cache, symbol, t) == CacheLookup(cache, symbol, t, PriceCacheTtl)

CacheOrderBook(cache, symbol, order_book, t) ==
    CacheStore(cache, symbol, order_book, t)

GetCachedOrderBook(cache, symbol, t) ==
    CacheLookup(cache, symbol, t, OrderBookCacheTtl)

(* f"{symbol}_{timeframe}_{limit}" *)
CacheKey(symbol, timeframe, n) ==
    symbol \o "_" \o timeframe \o "_" \o ToString(n)

GetCachedOhlcv(cache, symbol, timeframe, limit, t) ==
    CacheLookup(cache, CacheKey(symbol, timeframe, limit), t, OhlcvCacheTtl)

CacheOhlcvData(cache, symbol, timeframe, limit, data, t) ==
    CacheStore(cache, CacheKey(symbol, timeframe, limit), data, t)

(* rate_limit_api_call: what it returns and last_api_call afterwards *)
RateLimitApiCall(last_call, operation, t) ==
    IF operation \in DOMAIN last_call
       /\ t - last_call[operation] < MinApiInterval
    THEN [allowed |-> FALSE, last_api_call |-> last_call]
    ELSE [allowed |-> TRUE, last_api_call |-> DictPut(last_call, operation, t)]

Sample(operation, duration, t) ==
    [operation |-> operation, duration |-> duration, timestamp |-> t]

(* an append to a window without a capacity *)
WindowAppendUnbounded(window, sample) == window \o <<sample>>

(* deque(maxlen=WindowCapacity).append *)
WindowAppend(window, sample) ==
    IF Len(window) >= WindowCapacity
    THEN Tail(window) \o <<sample>>
    ELSE window \o <<sample>>

(* record_api_call run without interruption *)
RecordApiCall(count, window, operation, duration, t) ==
    [api_call_count |-> count + 1,
     api_call_times |-> WindowAppend(window, Sample(operation, duration, t))]

(* _retry_api_call from the given attempt (counted from 0) on: the value   *)
(* of the first attempt that upstream answers, or the exception of the     *)
(* last attempt, with the attempts made and the time slept between them    *)
RECURSIVE RetryLoop(_, _, _, _, _)
RetryLoop(data, answers, jitter, attempt, max_retries) ==
    IF attempt >= max_retries
    THEN [retry |-> "returned", value |-> <<>>, attempts |-> attempt,
          slept |-> 0]
    ELSE IF answers[attempt + 1]
    THEN [retry |-> "returned", value |-> <<data>>, attempts |-> attempt + 1,
          slept |-> 0]
    ELSE IF attempt = max_retries - 1
    THEN [retry |-> "raised", value |-> <<>>, attempts |-> attempt + 1,
          slept |-> 0]
    ELSE LET rest == RetryLoop(data, answers, jitter, attempt + 1, max_retries)
         IN [rest EXCEPT !.slept =
                @ + (BaseDelay * (2 ^ attempt) * jitter[attempt + 1]) \div 100]

(* a retry that allows itself one attempt more *)
RetryOnceMore(data, answers, jitter, max_retries) ==
    RetryLoop(data, answers, jitter, 0, max_retries + 1)

RetryApiCall(data, answers, jitter, max_retries) ==
    RetryLoop(data, answers, jitter, 0, max_retries)

(* time_operation: the duration is appended to the list of its name, of    *)
(* which the last TimingsKept are kept                                     *)
TimeOperation(times, operation_name, duration) ==
    LET old == IF operation_name \in DOMAIN times
               THEN times[operation_name] ELSE <<>>
        all == old \o <<duration>>
        kept == IF Len(all) > TimingsKept
                THEN SubSeq(all, Len(all) - TimingsKept + 1, Len(all))
                ELSE all
    IN DictPut(times, operation_name, kept)

(* a clearing that forgets the order books *)
ClearPricesOnly(prices, order_books) ==
    [price_cache |-> EmptyDict, order_book_cache |-> order_books]

(* clear_cache *)
ClearCache(prices, order_books) ==
    [price_cache |-> EmptyDict, order_book_cache |-> EmptyDict]

(* Volatility Estimator.  A cached value is a record of the number and of *)
(* obtained, the time its upstream candles were fetched; obtained is      *)
(* history, the code keeps the number only.                               *)

Candle(high, low, close) == [high |-> high, low |-> low, close |-> close]

Max3(a, b, c) == Max2(a, Max2(b, c))

(* calculate_true_range *)
CalculateTrueRange(high, low, prev_close) ==
    Max3(high - low, Abs(high - prev_close), Abs(low - prev_close))

TrueRanges(ohlcv) ==
    [i \in 1..(Len(ohlcv) - 1) |->
        CalculateTrueRange(ohlcv[i + 1].high, ohlcv[i + 1].low,
                           ohlcv[i].close)]

RECURSIVE SumSeq(_)
SumSeq(seq) == IF seq = <<>> THEN 0 ELSE Head(seq) + SumSeq(Tail(seq))

(* a mean over every true range there is *)
AtrOfAll(ohlcv, period) ==
    SumSeq(TrueRanges(ohlcv)) \div Len(TrueRanges(ohlcv))

(* np.mean(true_ranges[-period:]) *)
Atr(ohlcv, period) ==
    LET trs == TrueRanges(ohlcv)
        last == SubSeq(trs, Max2(1, Len(trs) - period + 1), Len(trs))
    IN SumSeq(last) \div Len(last)

(* a length test that any two candles pass *)
AnyCandles(ohlcv, period) == Len(ohlcv) >= 2

(* the opposite of len(ohlcv) < period + 1 *)
EnoughCandles(ohlcv, period) == Len(ohlcv) >= period + 1

(* the 0.0 of a failed calculation *)
FailSoft(t) == [v |-> 0, obtained |-> t]

(* calculate_atr at time t, upstream being what fetch_ohlcv would give;   *)
(* reads is the number of reads it asks of the exchange object, which is   *)
(* the raw one of the gateway                                              *)
CalculateAtr(ohlcv_c, atr_c, symbol, period, timeframe, t, upstream) ==
    LET key == CacheKey(symbol, timeframe, period)
        look == CacheLookup(atr_c, key, t, CacheTtl)
        cached == GetCachedOhlcv(ohlcv_c, symbol, timeframe, period + 1, t)
        use_cached == cached.value # <<>> /\ cached.value[1].candles # <<>>
        ohlcv == IF use_cached THEN cached.value[1]
                 ELSE [candles |-> upstream.candles, obtained |-> t]
        stored == IF ~use_cached /\ ~upstream.raised
                     /\ upstream.candles # <<>>
                  THEN CacheOhlcvData(cached.cache, symbol, timeframe,
                                      period + 1, ohlcv, t)
                  ELSE cached.cache
        reads == IF use_cached THEN 0 ELSE 1
    IN IF look.value # <<>>
       THEN [value |-> look.value[1], hit |-> TRUE, reads |-> 0,
             atr_cache |-> atr_c, ohlcv_cache |-> ohlcv_c]
       ELSE IF (~use_cached /\ upstream.raised)
               \/ ~EnoughCandles(ohlcv.candles, period)
       THEN [value |-> FailSoft(t), hit |-> FALSE, reads |-> reads,
             atr_cache |-> look.cache, ohlcv_cache |-> stored]
       ELSE LET atr == [v |-> Atr(ohlcv.candles, period),
                        obtained |-> ohlcv.obtained]
            IN [value |-> atr, hit |-> FALSE, reads |-> reads,
                atr_cache |-> CacheStore(look.cache, key, atr, t),
                ohlcv_cache |-> stored]

(* calculate_volatility at time t: ATR / last price, in basis points *)
CalculateVolatility(ohlcv_c, atr_c, vol_c, symbol, period, timeframe, t, ticker, upstream) ==
    LET key == CacheKey(symbol, timeframe, period) \o "_vol"
        look == CacheLookup(vol_c, key, t, CacheTtl)
        a == CalculateAtr(ohlcv_c, atr_c, symbol, period, timeframe, t,
                          upstream)
    IN IF look.value # <<>>
       THEN [value |-> look.value[1], hit |-> TRUE, reads |-> 0,
             volatility_cache |-> vol_c,
             atr_cache |-> atr_c, ohlcv_cache |-> ohlcv_c]
       ELSE IF ticker.raised \/ ticker.last <= 0
       THEN [value |-> FailSoft(t), hit |-> FALSE, reads |-> 1,
             volatility_cache |-> look.cache,
             atr_cache |-> atr_c, ohlcv_cache |-> ohlcv_c]
       ELSE LET volatility == [v |-> (a.value.v * 10000) \div ticker.last,
                               obtained |-> a.value.obtained]
            IN [value |-> volatility, hit |-> FALSE, reads |-> 1 + a.reads,
                volatility_cache |-> CacheStore(look.cache, key, volatility, t),
                atr_cache |-> a.atr_cache, ohlcv_cache |-> a.ohlcv_cache]

(* Inputs of the cache layer *)
PriceData == {[last |-> 100], [last |-> 101]}
OrderBooks == {[bid |-> 99, ask |-> 101]}
CacheSymbols == {"SOL/USDC"}
FullCandles == [i \in 1..(AtrPeriod + 1) |-> Candle(101, 100, 100)]
ShortCandles == SubSeq(FullCandles, 1, AtrPeriod)
(* a candle more than asked for: a first true range of 30 and then true   *)
(* ranges of 3, from a gap up and a gap down in turn.  The candle sets    *)
(* are such that the mean is a whole number.                              *)
GapCandles == <<Candle(100, 99, 100), Candle(130, 101, 101)>> \o [i \in 1..AtrPeriod |-> IF i % 2 = 1 THEN Candle(104, 103, 103) ELSE Candle(101, 100, 101)]
OhlcvReads == {[raised |-> TRUE, candles |-> <<>>],
               [raised |-> FALSE, candles |-> <<>>],
               [raised |-> FALSE, candles |-> ShortCandles],
               [raised |-> FALSE, candles |-> FullCandles],
               [raised |-> FALSE, candles |-> GapCandles]}
VolTickers == {[raised |-> TRUE, last |-> 0], [raised |-> FALSE, last |-> 100]}
LimiterOps == {"get_ticker", "get_balance"}
Durations == {20}

(* The reads of the gateway.  Upstream answers the attempts of one read    *)
(* or raises on them, answers[i] telling which for the i-th attempt; its    *)
(* answer is one value per operation.  The jitter of a backoff sleep is a   *)
(* percentage, drawn for every sleep, and an upstream call itself takes no  *)
(* time.                                                                    *)
ReadOf(worker) == "get_" \o worker
GatewayReads == {ReadOf("ticker"), ReadOf("balance"), ReadOf("positions")}
Answers == {<<TRUE, TRUE, TRUE, TRUE>>, <<TRUE, FALSE, FALSE, FALSE>>, <<FALSE, TRUE, TRUE, TRUE>>, <<FALSE, TRUE, FALSE, TRUE>>, <<FALSE, FALSE, TRUE, TRUE>>, <<FALSE, FALSE, FALSE, TRUE>>, <<FALSE, FALSE, FALSE, FALSE>>}
JitterDraws == {<<80, 80, 80>>, <<120, 120, 120>>, <<80, 120, 80>>}
UpstreamData(op) ==
    IF op = "get_ticker" THEN [last |-> 100]
    ELSE IF op = "get_balance" THEN [last |-> 0]
    ELSE [last |-> -1]

(* The fetch workers of a cycle.  A thread is a number; worker_pc gives   *)
(* the position of every thread object there is: "created", "running",    *)
(* "read" (api_call_count loaded), "written" (api_call_count stored) or   *)
(* "done"; worker_reg holds the count a thread has loaded.                *)
Workers == <<"ticker", "balance", "positions">>

WorkerOps == <<"get_ticker", "get_balance", "get_positions">>

WorkerCount == Len(Workers)

ThreadIds(cycle) == {WorkerCount * cycle + i : i \in 1..WorkerCount}

WorkerOp(thread) == WorkerOps[((thread - 1) % WorkerCount) + 1]

Live(pcs) == {t \in DOMAIN pcs : pcs[t] \in {"running", "read", "written"}}

(* a join loop that waits for no thread *)
JoinedWithoutWaiting(pcs, threads) == TRUE

(* for t in threads: t.join() is over when every thread has terminated *)
Joined(pcs, threads) == \A t \in threads : pcs[t] = "done"

(* what a cache layer operation returned: value is <<v>> or <<>> for None *)
(* hit says that a calculation answered from its own cache                *)
NoReturn == [op |-> "none", key |-> "", value |-> <<>>, allowed |-> FALSE,
             hit |-> FALSE, dropped |-> 0, at |-> 0,
             retry |-> "none", attempts |-> 0, answers |-> <<>>,
             upstream |-> 0]

Ret(op, key, value, t) ==
    [NoReturn EXCEPT !.op = op, !.key = key, !.value = value, !.at = t]

InitLayer ==
    /\ clock_ms = 0
    /\ ticks = 0
    /\ price_cache = EmptyDict
    /\ order_book_cache = EmptyDict
    /\ last_api_call = EmptyDict
    /\ api_call_count = 0
    /\ api_call_times = <<>>
    /\ operation_times = EmptyDict
    /\ ohlcv_cache = EmptyDict
    /\ atr_cache = EmptyDict
    /\ volatility_cache = EmptyDict
    /\ cycle_pc = "idle"
    /\ worker_pc = EmptyDict
    /\ worker_reg = EmptyDict
    /\ cycles = 0
    /\ recorded = <<>>
    /\ last_invocation = EmptyDict
    /\ ret = NoReturn

(* MarketMaker.__init__ and HyperliquidExchange.__init__: the loop is not *)
(* running, no cycle has been timed, the exchange is created with         *)
(* defaultType 'spot'; nobody is inside the gateway or a cache lookup     *)
InitProcess ==
    /\ running = FALSE
    /\ last_cycle_time = 0
    /\ cycle_count = 0
    /\ main_pc = "constructed"
    /\ stop_called = FALSE
    /\ default_type = "spot"
    /\ issued = {}
    /\ lookup_pc = EmptyDict
    /\ lookup_entry = EmptyDict
    /\ lookup_ret = EmptyDict

---------------------------------------------------------------------------
(* The state after construction: the configuration is read once *)

BaseSpreads == {20000, 100000}     \* asset.base_spread 0.002 and 0.01

DefaultSpread == 20000             \* asset.base_spread 0.002
DefaultTiers == 3                  \* volume.order_tiers when not configured

Init ==
    /\ today = 1
    /\ now = Epoch
    /\ trading_paused = FALSE
    /\ pause_reason = ""
    /\ rm_current_inventory = Num(0)
    /\ daily_trades = 0
    /\ last_reset_date = 0
    /\ order_tiers = DefaultTiers
    /\ base_spread = DefaultSpread
    /\ current_spot_orders = <<>>
    /\ last_mid_price = 0
    /\ daily_volume = 0
    /\ last_volume_reset = 0
    /\ consecutive_no_fills = 0
    /\ last_trade_time = 0
    /\ next_order_id = 1
    /\ last_in = NoInput
    /\ call_log = <<>>
    /\ result = NoResult
    /\ InitLayer
    /\ InitProcess

(* the same with the tier count taken from the configuration file *)
InitConfigured ==
    /\ today = 1
    /\ now = Epoch
    /\ trading_paused = FALSE
    /\ pause_reason = ""
    /\ rm_current_inventory = Num(0)
    /\ daily_trades = 0
    /\ last_reset_date = 0
    /\ order_tiers \in 1..MaxTiers
    /\ base_spread \in BaseSpreads
    /\ current_spot_orders = <<>>
    /\ last_mid_price = 0
    /\ daily_volume = 0
    /\ last_volume_reset = 0
    /\ consecutive_no_fills = 0
    /\ last_trade_time = 0
    /\ next_order_id = 1
    /\ last_in = NoInput
    /\ call_log = <<>>
    /\ result = NoResult
    /\ InitLayer
    /\ InitProcess

---------------------------------------------------------------------------
(* The clock *)

NextDay ==
    /\ today < MaxDay
    /\ today' = today + 1
    /\ UNCHANGED <<now, gate_vars, config_vars, process_vars, layer_vars, strategy_vars, exchange_vars,
                   last_in, call_log, result>>

Tick ==
    /\ now < MaxNow
    /\ now' = now + 1
    /\ UNCHANGED <<today, gate_vars, config_vars, process_vars, layer_vars, strategy_vars,
                   exchange_vars, last_in, call_log, result>>

---------------------------------------------------------------------------
(* Risk Gate operations called directly *)

RiskCheck ==
    \E inventory \in InventoryArgs, volatility \in Vols,
       balance \in Balances, positions \in PositionLists :
        \E rc \in {ComprehensiveRiskCheck(Gate, inventory, volatility,
                                          balance, positions, today)} :
           /\ SetGate(rc.gate)
           /\ last_in' = [NoInput EXCEPT
                             !.paused_before = trading_paused,
                             !.trades_before = daily_trades,
                             !.inventory = inventory,
                             !.volatility = volatility,
                             !.balance = balance,
                             !.positions = [present |-> TRUE,
                                            list |-> positions]]
           /\ call_log' = <<>>
           /\ result' = [NoResult EXCEPT
                            !.op = "comprehensive_risk_check",
                            !.outcome = IF rc.raised THEN "raised"
                                        ELSE "returned",
                            !.error = rc.error,
                            !.is_safe = rc.is_safe,
                            !.violations = rc.violations]
           /\ UNCHANGED <<today, now, config_vars, process_vars, layer_vars, strategy_vars,
                          exchange_vars>>

IncrementTradeCount ==
    /\ daily_trades < MaxTrades
    /\ daily_trades' = daily_trades + 1
    /\ last_in' = [NoInput EXCEPT !.paused_before = trading_paused]
    /\ call_log' = <<>>
    /\ result' = Returned("increment_trade_count")
    /\ UNCHANGED <<today, now, trading_paused, pause_reason,
                   rm_current_inventory, last_reset_date, config_vars, process_vars, layer_vars,
                   strategy_vars, exchange_vars>>

(* resume_trading called directly *)
ResumeTradingCall ==
    /\ SetGate(ResumeTrading(Gate))
    /\ last_in' = [NoInput EXCEPT !.paused_before = trading_paused]
    /\ call_log' = <<>>
    /\ result' = Returned("resume_trading")
    /\ UNCHANGED <<today, now, config_vars, process_vars, layer_vars, strategy_vars,
                   exchange_vars>>

NextGate == RiskCheck \/ IncrementTradeCount \/ NextDay

SpecGate == Init /\ [][NextGate]_vars

---------------------------------------------------------------------------
(* Quoting Engine operations called directly *)

CalculateQuotesCall ==
    \E mid_price \in Mids, volatility \in QuoteVols :
        LET q == CalculateQuotes(mid_price, volatility, consecutive_no_fills,
                                 daily_volume)
        IN /\ consecutive_no_fills' = q.consecutive_no_fills
           /\ last_in' = [NoInput EXCEPT !.paused_before = trading_paused,
                                         !.volatility = volatility,
                                         !.mid_price = mid_price]
           /\ call_log' = <<>>
           /\ result' = [Returned("calculate_quotes") EXCEPT
                            !.quotes = q.quotes, !.spread = q.spread,
                            !.fallback = q.fallback]
           /\ UNCHANGED <<today, now, gate_vars, config_vars, process_vars, layer_vars,
                          current_spot_orders, last_mid_price, daily_volume,
                          last_volume_reset, last_trade_time, exchange_vars>>

(* place_spot_quotes on the quotes of a calculate_quotes call *)
PlaceSpotQuotesCall ==
    \E mid_price \in PlaceMids, volatility \in PlaceVols,
       refused \in Failures(Range(current_spot_orders)) :
        \E quotes \in {CalculateQuotes(mid_price, volatility,
                           consecutive_no_fills, daily_volume).quotes} :
        \E rejected \in Failures(1..2 * Len(quotes)) :
        \E p \in {PlaceSpotQuotes(quotes, current_spot_orders,
                                   next_order_id, refused, rejected)} :
               /\ current_spot_orders' = p.orders
               /\ next_order_id' = p.next_id
               /\ last_in' = [NoInput EXCEPT
                                 !.paused_before = trading_paused,
                                 !.volatility = volatility,
                                 !.mid_price = mid_price]
               /\ call_log' = p.log
               /\ result' = [Returned("place_spot_quotes") EXCEPT
                                !.quotes = quotes, !.order_ids = p.order_ids]
               /\ UNCHANGED <<today, now, gate_vars, config_vars, process_vars, layer_vars,
                              last_mid_price, daily_volume, last_volume_reset,
                              consecutive_no_fills, last_trade_time>>

CancelSpotOrdersCall ==
    \E refused \in Failures(Range(current_spot_orders)) :
        LET c == CancelSpotOrders(current_spot_orders, refused)
        IN /\ current_spot_orders' = c.orders
           /\ last_in' = [NoInput EXCEPT !.paused_before = trading_paused]
           /\ call_log' = c.log
           /\ result' = Returned("cancel_spot_orders")
           /\ UNCHANGED <<today, now, gate_vars, config_vars, process_vars, layer_vars, last_mid_price,
                          daily_volume, last_volume_reset,
                          consecutive_no_fills, last_trade_time,
                          next_order_id>>

ResetDailyVolumeCall ==
    LET r == ResetDailyVolume(daily_volume, last_volume_reset, today)
    IN /\ daily_volume' = r.daily_volume
       /\ last_volume_reset' = r.last_volume_reset
       /\ last_in' = [NoInput EXCEPT !.paused_before = trading_paused,
                                     !.volume_before = daily_volume]
       /\ call_log' = <<>>
       /\ result' = Returned("reset_daily_volume")
       /\ UNCHANGED <<today, now, gate_vars, config_vars, process_vars, layer_vars,
                      current_spot_orders, last_mid_price,
                      consecutive_no_fills, last_trade_time, exchange_vars>>

UpdateVolumeMetricsCall ==
    \E trade_size \in TradeSizes :
        LET u == UpdateVolumeMetrics(trade_size, daily_volume,
                                     last_volume_reset, last_trade_time,
                                     consecutive_no_fills, today, now)
        IN /\ u.consecutive_no_fills <= MaxNoFills
           /\ u.daily_volume <= MaxDailyVolume
           /\ daily_volume' = u.daily_volume
           /\ last_volume_reset' = u.last_volume_reset
           /\ last_trade_time' = u.last_trade_time
           /\ consecutive_no_fills' = u.consecutive_no_fills
           /\ last_in' = [NoInput EXCEPT !.paused_before = trading_paused,
                                         !.trade_size = trade_size,
                                         !.volume_before = daily_volume]
           /\ call_log' = <<>>
           /\ result' = Returned("update_volume_metrics")
           /\ UNCHANGED <<today, now, gate_vars, config_vars, process_vars, layer_vars,
                          current_spot_orders, last_mid_price, exchange_vars>>

---------------------------------------------------------------------------
(* execute_strategy_cycle.  The three fetch workers are joined before      *)
(* anything else runs, so the cycle is one step on the values they read.   *)
(* The funding rate and the funding income change no state.                *)

CycleResult(success, error, paused_flag) ==
    [Returned("execute_strategy_cycle") EXCEPT
        !.success = success, !.error = error,
        !.trading_paused_flag = paused_flag]

(* a cycle that goes on without a ticker *)
TickerCheckSkipped(ticker) == FALSE

(* "if not ticker": the ticker read gave nothing *)
TickerMissing(ticker) == ~ticker.present

(* a cycle without the except clause: the exception leaves the call *)
Propagated(error) ==
    [CycleResult(FALSE, error, FALSE) EXCEPT !.outcome = "raised"]

(* the except clause at the cycle boundary: the exception becomes a       *)
(* failed result carrying str(e)                                          *)
CaughtAtBoundary(error) == CycleResult(FALSE, error, FALSE)

(* what execute_strategy_cycle does to the strategy, the gate and the     *)
(* exchange, whoever calls it                                             *)
StrategyCycle ==
    \E ticker \in TickerReads, balance \in BalanceReads,
       positions \in PositionReads, volatility \in Vols :
        \E rc \in {ComprehensiveRiskCheck(Gate, balance, volatility, balance,
                                          positions.list, today)} :
        LET v == ResetDailyVolume(daily_volume, last_volume_reset, today)
            mid_price == ticker.last
            spot_inventory == balance
            perp_position == PerpPosition(positions.list)
        IN
        /\ last_in' = [NoInput EXCEPT
                          !.paused_before = trading_paused,
                          !.ticker = ticker, !.balance = balance,
                          !.positions = positions,
                          !.inventory = spot_inventory,
                          !.volatility = volatility,
                          !.mid_price = mid_price]
        /\ UNCHANGED <<today, now, config_vars, layer_vars>>
        /\ IF TickerMissing(ticker)
           THEN \* 'Unable to get ticker'
                /\ result' = CycleResult(FALSE, "Unable to get ticker", FALSE)
                /\ daily_volume' = v.daily_volume
                /\ last_volume_reset' = v.last_volume_reset
                /\ call_log' = <<>>
                /\ UNCHANGED <<gate_vars, current_spot_orders, last_mid_price,
                               consecutive_no_fills, last_trade_time,
                               exchange_vars>>
           ELSE IF rc.raised
           THEN \* the risk check raised: caught at the cycle boundary
                /\ result' = CaughtAtBoundary(rc.error)
                /\ SetGate(rc.gate)
                /\ last_mid_price' = mid_price
                /\ daily_volume' = v.daily_volume
                /\ last_volume_reset' = v.last_volume_reset
                /\ call_log' = <<>>
                /\ UNCHANGED <<current_spot_orders, consecutive_no_fills,
                               last_trade_time, exchange_vars>>
           ELSE IF ~rc.is_safe
           THEN \* paused: cancel the resting orders and stop
                \E refused \in Failures(Range(current_spot_orders)) :
                    LET c == CancelSpotOrders(current_spot_orders, refused)
                    IN /\ result' = [CycleResult(FALSE,
                                         "Risk violations: "
                                         \o Join(", ", rc.violations), TRUE)
                                     EXCEPT !.violations = rc.violations]
                       /\ SetGate(rc.gate)
                       /\ last_mid_price' = mid_price
                       /\ daily_volume' = v.daily_volume
                       /\ last_volume_reset' = v.last_volume_reset
                       /\ current_spot_orders' = c.orders
                       /\ call_log' = c.log
                       /\ UNCHANGED <<consecutive_no_fills, last_trade_time,
                                      next_order_id>>
           ELSE \* safe: quote, place, hedge, count
                LET q == CalculateQuotes(mid_price, volatility,
                                         consecutive_no_fills, v.daily_volume)
                IN \E refused \in Failures(Range(current_spot_orders)),
                      rejected \in Failures(1..2 * Len(q.quotes)),
                      perp_ticker \in BOOLEAN, hedge_accept \in BOOLEAN :
                    LET p == PlaceSpotQuotes(q.quotes, current_spot_orders,
                                             next_order_id, refused, rejected)
                        h == PlaceHedgeOrder(
                                 CalculateHedgeSize(spot_inventory),
                                 perp_position, 1, perp_ticker, hedge_accept,
                                 p.next_id)
                        u == UpdateVolumeMetrics(0, v.daily_volume,
                                 v.last_volume_reset, last_trade_time,
                                 q.consecutive_no_fills, today, now)
                    IN /\ last_mid_price' = mid_price
                       /\ current_spot_orders' = p.orders
                       /\ IF HedgeSizeRaises(spot_inventory)
                          THEN \* raised after the quotes were placed
                               /\ result' = CaughtAtBoundary(
                                      HedgeSizeError(spot_inventory))
                               /\ SetGate(rc.gate)
                               /\ daily_volume' = v.daily_volume
                               /\ last_volume_reset' = v.last_volume_reset
                               /\ consecutive_no_fills' =
                                      q.consecutive_no_fills
                               /\ next_order_id' = p.next_id
                               /\ call_log' = p.log
                               /\ UNCHANGED last_trade_time
                          ELSE /\ result' =
                                      [CycleResult(TRUE, "", FALSE) EXCEPT
                                          !.is_safe = TRUE,
                                          !.quotes = q.quotes,
                                          !.spread = q.quotes[1].ask
                                                     - q.quotes[1].bid,
                                          !.order_ids = p.order_ids,
                                          !.hedge_order = h.placed]
                               /\ SetGate([rc.gate EXCEPT !.daily_trades =
                                              rc.gate.daily_trades + 1])
                               /\ daily_volume' = u.daily_volume
                               /\ last_volume_reset' = u.last_volume_reset
                               /\ last_trade_time' = u.last_trade_time
                               /\ consecutive_no_fills' =
                                      u.consecutive_no_fills
                               /\ next_order_id' = h.next_id
                               /\ call_log' = p.log \o h.log

(* a direct call of execute_strategy_cycle *)
ExecuteStrategyCycle == StrategyCycle /\ UNCHANGED process_vars

---------------------------------------------------------------------------
(* The reads of the gateway: get_ticker, get_balance and get_positions.    *)
(* Each runs under time_operation; a read that is not connected, or has no *)
(* wallet to ask for, or finds the ticker in the price cache, asks nobody. *)
(* The exception of the retries is caught by the read, which returns None  *)
(* and records no call.  get_positions sets the exchange's defaultType to  *)
(* 'swap' before its request and back to 'spot' after the call is         *)
(* recorded, inside the try block.                                        *)

(* the operations of the gateway that are timed *)
AllOps == <<"get_ticker", "get_balance", "get_positions", "get_funding_rate", "place_order", "cancel_order", "get_open_orders">>

(* every gateway operation leaves one timing: the operations there have    *)
(* been                                                                    *)
OperationsTimed(times) ==
    SumSeq([i \in 1..Len(AllOps) |->
              IF AllOps[i] \in DOMAIN times THEN Len(times[AllOps[i]])
              ELSE 0])

(* an upstream request, and the defaultType it was sent under *)
Request(op, market) == [op |-> op, market |-> market]

(* every read leaves one timing: the reads there have been *)
ReadsTimed(times) ==
    SumSeq([i \in 1..Len(Workers) |->
              IF ReadOf(Workers[i]) \in DOMAIN times
              THEN Len(times[ReadOf(Workers[i])]) ELSE 0])

GatewayReadCall ==
    \E op \in GatewayReads, connected \in BOOLEAN, wallet \in BOOLEAN,
       answers \in Answers, jitter \in JitterDraws :
        LET symbol == "SOL/USDC"
            unasked == ~connected \/ (op # "get_ticker" /\ ~wallet)
            cached == IF op = "get_ticker" /\ ~unasked
                      THEN GetCachedPrice(price_cache, symbol, clock_ms)
                      ELSE [value |-> <<>>, cache |-> price_cache]
            hit == cached.value # <<>>
            lim == RateLimitApiCall(last_api_call, op, clock_ms)
            start == clock_ms + (IF lim.allowed THEN 0 ELSE LimiterSleep)
            r == RetryApiCall(UpstreamData(op), answers, jitter, MaxRetries)
            end == IF unasked \/ hit THEN clock_ms ELSE start + r.slept
            recording == ~unasked /\ ~hit /\ r.retry = "returned"
            rec == RecordApiCall(api_call_count, api_call_times, op,
                                 r.slept, end)
        IN /\ OperationsTimed(operation_times) < MaxReads
           /\ clock_ms' = end
           /\ operation_times' =
                 TimeOperation(operation_times, op, end - clock_ms)
           /\ IF unasked \/ hit
              THEN /\ ret' = Ret(op, symbol, cached.value, end)
                   /\ price_cache' = cached.cache
                   /\ UNCHANGED <<last_api_call, last_invocation,
                                  api_call_count, api_call_times, recorded>>
              ELSE /\ ret' = [Ret(op, symbol, r.value, end) EXCEPT
                                 !.retry = r.retry, !.attempts = r.attempts,
                                 !.answers = answers, !.allowed = lim.allowed]
                   /\ last_api_call' = lim.last_api_call
                   /\ last_invocation' = DictPut(last_invocation, op, clock_ms)
                   /\ api_call_count' = IF recording THEN rec.api_call_count
                                        ELSE api_call_count
                   /\ api_call_times' = IF recording THEN rec.api_call_times
                                        ELSE api_call_times
                   /\ recorded' = IF recording
                                  THEN Append(recorded,
                                              Sample(op, r.slept, end))
                                  ELSE recorded
                   /\ price_cache' =
                         IF recording /\ op = "get_ticker"
                         THEN CachePriceData(cached.cache, symbol,
                                             UpstreamData(op), end)
                         ELSE cached.cache
           /\ default_type' =
                 IF op # "get_positions" \/ unasked THEN default_type
                 ELSE IF r.retry = "returned" THEN "spot" ELSE "swap"
           /\ issued' =
                 IF unasked \/ hit THEN issued
                 ELSE issued \cup
                      {Request(op, IF op = "get_positions" THEN "swap"
                                   ELSE default_type)}
           /\ UNCHANGED <<core_vars, config_vars, main_vars, lookup_vars,
                          ticks, order_book_cache, volatility_vars,
                          worker_vars>>

---------------------------------------------------------------------------
(* The gateway operations that choose a market type: get_funding_rate,     *)
(* place_order, cancel_order and get_open_orders.  Each sets the           *)
(* exchange's defaultType before its request and sets it back to 'spot'    *)
(* after the call is recorded; both assignments stand in the try block,    *)
(* and the except clause returns None or False.                            *)

MarketTypes == {"spot", "swap"}

SwitchingOps == {"get_positions", "get_funding_rate", "place_order", "cancel_order", "get_open_orders"}

(* the defaultType an operation leaves that has switched to market_type *)
DefaultTypeLeft(market_type, raised) ==
    IF raised THEN market_type ELSE "spot"

(* what such an operation does: unasked when it returns before the limiter *)
(* is asked, raised when its upstream call raises, slept the time its      *)
(* upstream call took                                                      *)
SwitchingOperation(op, market_type, unasked, raised, value, slept) ==
    LET lim == RateLimitApiCall(last_api_call, op, clock_ms)
        start == clock_ms + (IF lim.allowed THEN 0 ELSE LimiterSleep)
        end == IF unasked THEN clock_ms ELSE start + slept
        rec == RecordApiCall(api_call_count, api_call_times, op, slept, end)
    IN /\ OperationsTimed(operation_times) < MaxReads
       /\ clock_ms' = end
       /\ operation_times' =
             TimeOperation(operation_times, op, end - clock_ms)
       /\ IF unasked
          THEN /\ ret' = Ret(op, market_type, <<>>, end)
               /\ UNCHANGED <<last_api_call, last_invocation, api_call_count,
                              api_call_times, recorded, default_type,
                              issued>>
          ELSE /\ ret' = [Ret(op, market_type,
                              IF raised THEN <<>> ELSE value, end)
                             EXCEPT !.retry = IF raised THEN "raised"
                                              ELSE "returned",
                                    !.allowed = lim.allowed]
               /\ last_api_call' = lim.last_api_call
               /\ last_invocation' = DictPut(last_invocation, op, clock_ms)
               /\ api_call_count' = IF raised THEN api_call_count
                                    ELSE rec.api_call_count
               /\ api_call_times' = IF raised THEN api_call_times
                                    ELSE rec.api_call_times
               /\ recorded' = IF raised THEN recorded
                              ELSE Append(recorded, Sample(op, slept, end))
               /\ default_type' = DefaultTypeLeft(market_type, raised)
               /\ issued' = issued \cup {Request(op, market_type)}

(* get_funding_rate: always 'swap'; the request is retried *)
GetFundingRateCall ==
    \E connected \in BOOLEAN, answers \in Answers, jitter \in JitterDraws :
        LET r == RetryApiCall(UpstreamData("get_funding_rate"), answers,
                              jitter, MaxRetries)
        IN /\ SwitchingOperation("get_funding_rate", "swap", ~connected,
                                 r.retry = "raised", r.value, r.slept)
           /\ UNCHANGED <<core_vars, main_vars, lookup_vars, ticks, price_cache,
                          order_book_cache, volatility_vars, worker_vars>>

(* place_order: nothing is asked without the wallet that signs; an order   *)
(* that comes back without an id gives None after the restoring            *)
PlaceOrderCall ==
    \E connected \in BOOLEAN, credentials \in BOOLEAN,
       market_type \in MarketTypes,
       answer \in {"id", "no_id", "raises"} :
        /\ SwitchingOperation("place_order", market_type,
                              ~connected \/ ~credentials,
                              answer = "raises",
                              IF answer = "id"
                              THEN <<UpstreamData("place_order")>>
                              ELSE <<>>, 0)
        /\ UNCHANGED <<core_vars, main_vars, lookup_vars, ticks, price_cache,
                       order_book_cache, volatility_vars, worker_vars>>

(* cancel_order: when the exchange's cancel_order raises, create_order of  *)
(* type 'cancel' is tried; the operation raises when both do               *)
CancelOrderCall ==
    \E connected \in BOOLEAN, market_type \in MarketTypes,
       cancel_raises \in BOOLEAN, fallback_raises \in BOOLEAN :
        /\ SwitchingOperation("cancel_order", market_type, ~connected,
                              cancel_raises /\ fallback_raises,
                              <<UpstreamData("cancel_order")>>, 0)
        /\ UNCHANGED <<core_vars, main_vars, lookup_vars, ticks, price_cache,
                       order_book_cache, volatility_vars, worker_vars>>

(* get_open_orders *)
GetOpenOrdersCall ==
    \E connected \in BOOLEAN, market_type \in MarketTypes,
       raises \in BOOLEAN :
        /\ SwitchingOperation("get_open_orders", market_type, ~connected,
                              raises, <<UpstreamData("get_open_orders")>>, 0)
        /\ UNCHANGED <<core_vars, main_vars, lookup_vars, ticks, price_cache,
                       order_book_cache, volatility_vars, worker_vars>>

---------------------------------------------------------------------------
(* Hedge and funding operations called directly *)

PlaceHedgeOrderCall ==
    \E spot_inventory \in HedgeInventories, current \in HedgePositions,
       perp_ticker \in BOOLEAN, accept \in BOOLEAN :
        LET h == PlaceHedgeOrder(CalculateHedgeSize(Num(spot_inventory)),
                                 current, HedgeDen, perp_ticker, accept,
                                 next_order_id)
        IN /\ next_order_id' = h.next_id
           /\ last_in' = [NoInput EXCEPT !.paused_before = trading_paused,
                                         !.inventory = Num(spot_inventory),
                                         !.perp_position = current,
                                         !.perp_ticker = perp_ticker]
           /\ call_log' = h.log
           /\ result' = [Returned("place_hedge_order") EXCEPT
                            !.hedge_order = h.placed]
           /\ UNCHANGED <<today, now, gate_vars, config_vars, process_vars, layer_vars,
                          strategy_vars>>

CalculateFundingIncomeCall ==
    \E perp_position \in FundingPositions, funding_rate \in FundingRates,
       ticker \in FundingTickers :
        /\ last_in' = [NoInput EXCEPT !.paused_before = trading_paused,
                                      !.ticker = ticker,
                                      !.perp_position = perp_position,
                                      !.funding_rate = funding_rate]
        /\ call_log' = <<>>
        /\ result' = [Returned("calculate_funding_income") EXCEPT
                         !.funding_income =
                            CalculateFundingIncome(perp_position,
                                                   funding_rate, ticker)]
        /\ UNCHANGED <<today, now, gate_vars, config_vars, process_vars, layer_vars,
                       strategy_vars, exchange_vars>>

---------------------------------------------------------------------------
(* The caches: stores and lookups at the current time *)

(* time passes between two operations of the cache layer *)
(* to the last millisecond of each lifetime, and to its end *)
CacheDelays == {PriceCacheTtl - 1, PriceCacheTtl, OrderBookCacheTtl - 1, OrderBookCacheTtl, OhlcvCacheTtl - 1, OhlcvCacheTtl, CacheTtl - 1, CacheTtl}

CacheTick ==
    /\ ticks < MaxCacheTicks
    /\ \E delay \in CacheDelays : clock_ms' = clock_ms + delay
    /\ ticks' = ticks + 1
    /\ UNCHANGED <<core_vars, config_vars, process_vars, optimizer_vars, volatility_vars,
                   worker_vars, ret>>

CachePriceDataCall ==
    /\ clock_ms <= MaxStoreClock
    /\ \E symbol \in CacheSymbols, data \in PriceData :
          /\ price_cache' = CachePriceData(price_cache, symbol, data, clock_ms)
          /\ ret' = Ret("cache_price_data", symbol, <<data>>, clock_ms)
    /\ UNCHANGED <<core_vars, config_vars, process_vars, clock_ms, ticks, order_book_cache,
                   last_api_call, api_call_count, api_call_times,
                   operation_times, recorded, last_invocation,
                   volatility_vars, worker_vars>>

GetCachedPriceCall ==
    /\ \E symbol \in CacheSymbols :
          \E got \in {GetCachedPrice(price_cache, symbol, clock_ms)} :
             /\ price_cache' = got.cache
             /\ ret' = Ret("get_cached_price", symbol, got.value, clock_ms)
    /\ UNCHANGED <<core_vars, config_vars, process_vars, clock_ms, ticks, order_book_cache,
                   last_api_call, api_call_count, api_call_times,
                   operation_times, recorded, last_invocation,
                   volatility_vars, worker_vars>>

CacheOrderBookCall ==
    /\ clock_ms <= MaxStoreClock
    /\ \E symbol \in CacheSymbols, data \in OrderBooks :
          /\ order_book_cache' =
                CacheOrderBook(order_book_cache, symbol, data, clock_ms)
          /\ ret' = Ret("cache_order_book", symbol, <<data>>, clock_ms)
    /\ UNCHANGED <<core_vars, config_vars, process_vars, clock_ms, ticks, price_cache,
                   last_api_call, api_call_count, api_call_times,
                   operation_times, recorded, last_invocation,
                   volatility_vars, worker_vars>>

GetCachedOrderBookCall ==
    /\ \E symbol \in CacheSymbols :
          \E got \in {GetCachedOrderBook(order_book_cache, symbol, clock_ms)} :
             /\ order_book_cache' = got.cache
             /\ ret' = Ret("get_cached_order_book", symbol, got.value, clock_ms)
    /\ UNCHANGED <<core_vars, config_vars, process_vars, clock_ms, ticks, price_cache,
                   last_api_call, api_call_count, api_call_times,
                   operation_times, recorded, last_invocation,
                   volatility_vars, worker_vars>>

CacheOhlcvDataCall ==
    /\ clock_ms <= MaxStoreClock
    /\ \E symbol \in CacheSymbols :
          \E data \in {[candles |-> FullCandles, obtained |-> clock_ms]} :
             /\ ohlcv_cache' = CacheOhlcvData(ohlcv_cache, symbol, Timeframe,
                                              AtrPeriod + 1, data, clock_ms)
             /\ ret' = Ret("cache_ohlcv_data",
                           CacheKey(symbol, Timeframe, AtrPeriod + 1),
                           <<data>>, clock_ms)
    /\ UNCHANGED <<core_vars, config_vars, process_vars, clock_ms, ticks, optimizer_vars,
                   atr_cache, volatility_cache, worker_vars>>

GetCachedOhlcvCall ==
    /\ \E symbol \in CacheSymbols :
          \E got \in {GetCachedOhlcv(ohlcv_cache, symbol, Timeframe,
                                     AtrPeriod + 1, clock_ms)} :
             /\ ohlcv_cache' = got.cache
             /\ ret' = Ret("get_cached_ohlcv",
                           CacheKey(symbol, Timeframe, AtrPeriod + 1),
                           got.value, clock_ms)
    /\ UNCHANGED <<core_vars, config_vars, process_vars, clock_ms, ticks, optimizer_vars,
                   atr_cache, volatility_cache, worker_vars>>

---------------------------------------------------------------------------
(* The Volatility Estimator *)

CalculateAtrCall ==
    /\ \E symbol \in CacheSymbols, upstream \in OhlcvReads :
          \E c \in {CalculateAtr(ohlcv_cache, atr_cache, symbol, AtrPeriod,
                                 Timeframe, clock_ms, upstream)} :
             /\ ohlcv_cache' = c.ohlcv_cache
             /\ atr_cache' = c.atr_cache
             /\ ret' = [Ret("calculate_atr",
                            CacheKey(symbol, Timeframe, AtrPeriod),
                            <<c.value>>, clock_ms)
                           EXCEPT !.hit = c.hit, !.upstream = c.reads]
    /\ UNCHANGED <<core_vars, config_vars, process_vars, clock_ms, ticks, optimizer_vars,
                   volatility_cache, worker_vars>>

CalculateVolatilityCall ==
    /\ \E symbol \in CacheSymbols, ticker \in VolTickers,
          upstream \in OhlcvReads :
          \E c \in {CalculateVolatility(ohlcv_cache, atr_cache,
                                        volatility_cache, symbol, AtrPeriod,
                                        Timeframe, clock_ms, ticker,
                                        upstream)} :
             /\ ohlcv_cache' = c.ohlcv_cache
             /\ atr_cache' = c.atr_cache
             /\ volatility_cache' = c.volatility_cache
             /\ ret' = [Ret("calculate_volatility",
                            CacheKey(symbol, Timeframe, AtrPeriod) \o "_vol",
                            <<c.value>>, clock_ms)
                           EXCEPT !.hit = c.hit, !.upstream = c.reads]
    /\ UNCHANGED <<core_vars, config_vars, process_vars, clock_ms, ticks, optimizer_vars,
                   worker_vars>>

VolDelays == {OhlcvCacheTtl - 1, CacheTtl - 1, CacheTtl}

VolTick ==
    /\ ticks < MaxVolTicks
    /\ \E delay \in VolDelays : clock_ms' = clock_ms + delay
    /\ ticks' = ticks + 1
    /\ UNCHANGED <<core_vars, config_vars, process_vars, optimizer_vars, volatility_vars,
                   worker_vars, ret>>

---------------------------------------------------------------------------
(* The rate limiter and the telemetry of the optimizer *)

LimiterDelays == {1, MinApiInterval - 1}

LimiterTick ==
    /\ ticks < MaxLimiterTicks
    /\ \E delay \in LimiterDelays : clock_ms' = clock_ms + delay
    /\ ticks' = ticks + 1
    /\ UNCHANGED <<core_vars, config_vars, process_vars, optimizer_vars, volatility_vars,
                   worker_vars, ret>>

(* last_invocation is history: when each name was last asked about *)
RateLimitApiCallCall ==
    /\ \E operation \in LimiterOps :
          \E r \in {RateLimitApiCall(last_api_call, operation, clock_ms)} :
             /\ last_api_call' = r.last_api_call
             /\ last_invocation' = DictPut(last_invocation, operation, clock_ms)
             /\ ret' = [Ret("rate_limit_api_call", operation, <<>>, clock_ms)
                           EXCEPT !.allowed = r.allowed]
    /\ UNCHANGED <<core_vars, config_vars, process_vars, clock_ms, ticks, price_cache,
                   order_book_cache, api_call_count, api_call_times,
                   operation_times, recorded, volatility_vars, worker_vars>>

(* recorded is history: every sample ever handed to record_api_call *)
RecordApiCallCall ==
    /\ Len(recorded) < MaxRecorded
    /\ \E operation \in {"get_ticker"}, duration \in Durations :
          \E r \in {RecordApiCall(api_call_count, api_call_times, operation,
                                  duration, clock_ms)} :
             /\ api_call_count' = r.api_call_count
             /\ api_call_times' = r.api_call_times
             /\ recorded' =
                   Append(recorded, Sample(operation, duration, clock_ms))
             /\ ret' = Ret("record_api_call", operation, <<>>, clock_ms)
    /\ UNCHANGED <<core_vars, config_vars, process_vars, clock_ms, ticks, price_cache,
                   order_book_cache, last_api_call, operation_times,
                   last_invocation, volatility_vars, worker_vars>>

TimeOperationCall ==
    /\ \E operation_name \in {"get_ticker"}, duration \in Durations :
          /\ operation_name \in DOMAIN operation_times =>
                Len(operation_times[operation_name]) < MaxTimings
          /\ operation_times' =
                TimeOperation(operation_times, operation_name, duration)
          /\ ret' = Ret("time_operation", operation_name, <<>>, clock_ms)
    /\ UNCHANGED <<core_vars, config_vars, process_vars, clock_ms, ticks, price_cache,
                   order_book_cache, last_api_call, api_call_count,
                   api_call_times, recorded, last_invocation,
                   volatility_vars, worker_vars>>

(* dropped is history: how many entries there were *)
ClearCacheCall ==
    /\ \E c \in {ClearCache(price_cache, order_book_cache)} :
          /\ price_cache' = c.price_cache
          /\ order_book_cache' = c.order_book_cache
    /\ ret' = [Ret("clear_cache", "", <<>>, clock_ms) EXCEPT
                  !.dropped = Cardinality(DOMAIN price_cache)
                              + Cardinality(DOMAIN order_book_cache)]
    /\ UNCHANGED <<core_vars, config_vars, process_vars, clock_ms, ticks, last_api_call,
                   api_call_count, api_call_times, operation_times, recorded,
                   last_invocation, volatility_vars, worker_vars>>

(* the i-th call of a long run takes a time that depends on i *)
Elapsed(i) == 1 + (i % 7)

(* get_ticker's record_api_call, over and over *)
RecordTickerCall ==
    /\ Len(recorded) < MaxCalls
    /\ \E duration \in {Elapsed(Len(recorded))} :
          \E r \in {RecordApiCall(api_call_count, api_call_times, "get_ticker",
                                  duration, clock_ms)} :
             /\ api_call_count' = r.api_call_count
             /\ api_call_times' = r.api_call_times
             /\ recorded' =
                   Append(recorded, Sample("get_ticker", duration, clock_ms))
             /\ ret' = Ret("record_api_call", "get_ticker", <<>>, clock_ms)
    /\ UNCHANGED <<core_vars, config_vars, process_vars, clock_ms, ticks, price_cache,
                   order_book_cache, last_api_call, operation_times,
                   last_invocation, volatility_vars, worker_vars>>

---------------------------------------------------------------------------
(* The cycle and its three fetch workers, step by step *)

(* the three Thread objects are made *)
CycleStart ==
    /\ cycle_pc = "idle"
    /\ cycles < MaxCycles
    /\ cycle_pc' = "starting"
    /\ worker_pc' = [t \in DOMAIN worker_pc \cup ThreadIds(cycles) |->
                        IF t \in ThreadIds(cycles) THEN "created"
                        ELSE worker_pc[t]]
    /\ UNCHANGED <<core_vars, config_vars, process_vars, clock_ms, ticks, optimizer_vars,
                   volatility_vars, worker_reg, cycles, ret>>

(* for t in threads: t.start() *)
StartWorker ==
    /\ cycle_pc = "starting"
    /\ \E t \in ThreadIds(cycles) :
          /\ worker_pc[t] = "created"
          /\ \A u \in ThreadIds(cycles) : u < t => worker_pc[u] # "created"
          /\ worker_pc' = [worker_pc EXCEPT ![t] = "running"]
          /\ cycle_pc' = IF \A u \in ThreadIds(cycles) :
                               u > t => worker_pc[u] # "created"
                         THEN "joining" ELSE "starting"
    /\ UNCHANGED <<core_vars, config_vars, process_vars, clock_ms, ticks, optimizer_vars,
                   volatility_vars, worker_reg, cycles, ret>>

(* the gateway call answers without telemetry: from the cache, or None    *)
(* after an exception                                                     *)
WorkerNoRecord ==
    /\ \E t \in DOMAIN worker_pc :
          /\ worker_pc[t] = "running"
          /\ worker_pc' = [worker_pc EXCEPT ![t] = "done"]
    /\ UNCHANGED <<core_vars, config_vars, process_vars, clock_ms, ticks, optimizer_vars,
                   volatility_vars, worker_reg, cycle_pc, cycles, ret>>

(* record_api_call begins: self.api_call_count is loaded *)
WorkerRead ==
    /\ \E t \in DOMAIN worker_pc :
          /\ worker_pc[t] = "running"
          /\ worker_pc' = [worker_pc EXCEPT ![t] = "read"]
          /\ worker_reg' = DictPut(worker_reg, t, api_call_count)
          /\ recorded' =
                Append(recorded, Sample(WorkerOp(t), t, clock_ms))
    /\ UNCHANGED <<core_vars, config_vars, process_vars, clock_ms, ticks, price_cache,
                   order_book_cache, last_api_call, api_call_count,
                   api_call_times, operation_times, last_invocation,
                   volatility_vars, cycle_pc, cycles, ret>>

(* self.api_call_count = loaded value + 1 *)
WorkerWrite ==
    /\ \E t \in DOMAIN worker_pc :
          /\ worker_pc[t] = "read"
          /\ worker_pc' = [worker_pc EXCEPT ![t] = "written"]
          /\ api_call_count' = worker_reg[t] + 1
          /\ worker_reg' = DictDel(worker_reg, t)
    /\ UNCHANGED <<core_vars, config_vars, process_vars, clock_ms, ticks, price_cache,
                   order_book_cache, last_api_call, api_call_times,
                   operation_times, recorded, last_invocation,
                   volatility_vars, cycle_pc, cycles, ret>>

(* self.api_call_times.append(...), and the thread ends *)
WorkerAppend ==
    /\ \E t \in DOMAIN worker_pc :
          /\ worker_pc[t] = "written"
          /\ worker_pc' = [worker_pc EXCEPT ![t] = "done"]
          /\ api_call_times' =
                WindowAppend(api_call_times, Sample(WorkerOp(t), t, clock_ms))
    /\ UNCHANGED <<core_vars, config_vars, process_vars, clock_ms, ticks, price_cache,
                   order_book_cache, last_api_call, api_call_count,
                   operation_times, recorded, last_invocation,
                   volatility_vars, worker_reg, cycle_pc, cycles, ret>>

(* for t in threads: t.join() *)
JoinWorkers ==
    /\ cycle_pc = "joining"
    /\ Joined(worker_pc, ThreadIds(cycles))
    /\ cycle_pc' = "processing"
    /\ UNCHANGED <<core_vars, config_vars, process_vars, clock_ms, ticks, optimizer_vars,
                   volatility_vars, worker_pc, worker_reg, cycles, ret>>

(* the rest of the cycle, to its return; the thread objects that have     *)
(* ended go with it                                                       *)
CycleReturn ==
    /\ cycle_pc = "processing"
    /\ cycle_pc' = "idle"
    /\ cycles' = cycles + 1
    /\ worker_pc' = [t \in {u \in DOMAIN worker_pc : worker_pc[u] # "done"} |->
                        worker_pc[t]]
    /\ UNCHANGED <<core_vars, config_vars, process_vars, clock_ms, ticks, optimizer_vars,
                   volatility_vars, worker_reg, ret>>

---------------------------------------------------------------------------
(* The gateway reads inside the fetch workers, step by step.  A worker is  *)
(* a Python thread, and the interpreter may switch threads between any two *)
(* of its instructions; what the threads share here is the exchange's      *)
(* defaultType, which a request reads when it is sent.  Before its first   *)
(* request a read consults the price cache (the ticker) and the limiter,   *)
(* and get_positions sets defaultType to 'swap'; every attempt of the      *)
(* retry sends one request; after the answer the call is recorded, the     *)
(* ticker is cached and get_positions sets defaultType back to 'spot'.     *)
(* worker_reg holds here the attempts a worker's retry has made.           *)

FetchEnter ==
    \E t \in DOMAIN worker_pc, connected \in BOOLEAN, wallet \in BOOLEAN :
        LET op == WorkerOp(t)
            symbol == "SOL/USDC"
            unasked == ~connected \/ (op # "get_ticker" /\ ~wallet)
            cached == IF op = "get_ticker" /\ ~unasked
                      THEN GetCachedPrice(price_cache, symbol, clock_ms)
                      ELSE [value |-> <<>>, cache |-> price_cache]
            hit == cached.value # <<>>
            lim == RateLimitApiCall(last_api_call, op, clock_ms)
        IN /\ worker_pc[t] = "running"
           /\ price_cache' = cached.cache
           /\ IF unasked \/ hit
              THEN /\ worker_pc' = [worker_pc EXCEPT ![t] = "done"]
                   /\ operation_times' = TimeOperation(operation_times, op, 0)
                   /\ UNCHANGED <<last_api_call, last_invocation, worker_reg,
                                  default_type>>
              ELSE /\ worker_pc' = [worker_pc EXCEPT ![t] = "asking"]
                   /\ worker_reg' = DictPut(worker_reg, t, 0)
                   /\ last_api_call' = lim.last_api_call
                   /\ last_invocation' = DictPut(last_invocation, op, clock_ms)
                   /\ default_type' = IF op = "get_positions" THEN "swap"
                                      ELSE default_type
                   /\ UNCHANGED operation_times
           /\ UNCHANGED <<core_vars, main_vars, lookup_vars, issued, clock_ms,
                          ticks, order_book_cache, api_call_count,
                          api_call_times, recorded, volatility_vars, cycle_pc,
                          cycles, ret>>

(* one attempt of _retry_api_call: the request goes out under the          *)
(* defaultType of the moment; when the last attempt raises, the read       *)
(* returns None from its except clause                                     *)
FetchRequest ==
    \E t \in DOMAIN worker_pc, answered \in BOOLEAN :
        LET op == WorkerOp(t)
            last == worker_reg[t] = MaxRetries - 1
        IN /\ worker_pc[t] = "asking"
           /\ issued' = issued \cup {Request(op, default_type)}
           /\ worker_pc' = [worker_pc EXCEPT ![t] =
                               IF answered THEN "answered"
                               ELSE IF last THEN "done" ELSE "asking"]
           /\ worker_reg' = IF answered \/ last THEN DictDel(worker_reg, t)
                            ELSE DictPut(worker_reg, t, worker_reg[t] + 1)
           /\ operation_times' =
                 IF ~answered /\ last
                 THEN TimeOperation(operation_times, op, 0)
                 ELSE operation_times
           /\ UNCHANGED <<core_vars, main_vars, lookup_vars, default_type,
                          clock_ms, ticks, price_cache, order_book_cache,
                          last_api_call, api_call_count, api_call_times,
                          recorded, last_invocation, volatility_vars,
                          cycle_pc, cycles, ret>>

(* after the answer: record_api_call, the caching of the ticker, the       *)
(* restoring of 'spot' by get_positions, and the timing of the read        *)
FetchAnswered ==
    \E t \in DOMAIN worker_pc :
        LET op == WorkerOp(t)
            rec == RecordApiCall(api_call_count, api_call_times, op, 0,
                                 clock_ms)
        IN /\ worker_pc[t] = "answered"
           /\ worker_pc' = [worker_pc EXCEPT ![t] = "done"]
           /\ api_call_count' = rec.api_call_count
           /\ api_call_times' = rec.api_call_times
           /\ recorded' = Append(recorded, Sample(op, 0, clock_ms))
           /\ price_cache' = IF op = "get_ticker"
                             THEN CachePriceData(price_cache, "SOL/USDC",
                                                 UpstreamData(op), clock_ms)
                             ELSE price_cache
           /\ default_type' = IF op = "get_positions" THEN "spot"
                              ELSE default_type
           /\ operation_times' = TimeOperation(operation_times, op, 0)
           /\ UNCHANGED <<core_vars, main_vars, lookup_vars, issued, clock_ms,
                          ticks, order_book_cache, last_api_call,
                          last_invocation, volatility_vars, worker_reg,
                          cycle_pc, cycles, ret>>

---------------------------------------------------------------------------
(* Specifications *)

(* the engine: cycles, with the operations a caller may run between them *)
Next ==
    \/ ExecuteStrategyCycle
    \/ PlaceSpotQuotesCall
    \/ IncrementTradeCount
    \/ NextDay

Spec == Init /\ [][Next]_vars

(* the quoting operations, for every configured tier count *)
NextQuotes ==
    \/ CalculateQuotesCall
    \/ UpdateVolumeMetricsCall
    \/ Tick

SpecQuotes == InitConfigured /\ [][NextQuotes]_vars

(* order placement and cancellation *)
NextOrders ==
    \/ PlaceSpotQuotesCall
    \/ CancelSpotOrdersCall

SpecOrders == InitConfigured /\ [][NextOrders]_vars

(* the five caches under the passing of time *)
NextCache ==
    \/ CachePriceDataCall
    \/ GetCachedPriceCall
    \/ CacheOrderBookCall
    \/ GetCachedOrderBookCall
    \/ CacheOhlcvDataCall
    \/ GetCachedOhlcvCall
    \/ CalculateAtrCall
    \/ CalculateVolatilityCall
    \/ CacheTick

SpecCache == Init /\ [][NextCache]_vars

(* the estimator alone, over several lifetimes of its caches *)
NextVolatility ==
    \/ CalculateAtrCall
    \/ CalculateVolatilityCall
    \/ VolTick

SpecVolatility == Init /\ [][NextVolatility]_vars


(* the optimizer: caches, limiter, telemetry and the clearing of caches *)
NextOptimizer ==
    \/ CachePriceDataCall
    \/ CacheOrderBookCall
    \/ RateLimitApiCallCall
    \/ RecordApiCallCall
    \/ TimeOperationCall
    \/ ClearCacheCall
    \/ LimiterTick

SpecOptimizer == Init /\ [][NextOptimizer]_vars

(* the rolling window filled past its capacity *)
NextTelemetry == RecordTickerCall

SpecTelemetry == Init /\ [][NextTelemetry]_vars

(* one cycle after another, each with its three worker threads *)
NextWorkers ==
    \/ CycleStart
    \/ StartWorker
    \/ WorkerNoRecord
    \/ WorkerRead
    \/ WorkerWrite
    \/ WorkerAppend
    \/ JoinWorkers
    \/ CycleReturn

SpecWorkers == Init /\ [][NextWorkers]_vars

(* the pause state of the gate: checks, direct resumes and counted trades *)
NextPause ==
    \/ RiskCheck
    \/ ResumeTradingCall
    \/ IncrementTradeCount

SpecPause == Init /\ [][NextPause]_vars

(* the reads of the gateway, with the time they sleep *)
NextGateway ==
    \/ GatewayReadCall

SpecGateway == Init /\ [][NextGateway]_vars

(* the daily volume over the days *)
NextVolume ==
    \/ ResetDailyVolumeCall
    \/ UpdateVolumeMetricsCall
    \/ ExecuteStrategyCycle
    \/ NextDay

SpecVolume == Init /\ [][NextVolume]_vars

(* the perpetual side: hedge orders and funding income *)
NextPerp ==
    \/ PlaceHedgeOrderCall
    \/ CalculateFundingIncomeCall

SpecPerp == Init /\ [][NextPerp]_vars

---------------------------------------------------------------------------
(* Properties *)

IsCycle == result.op = "execute_strategy_cycle"
IsRiskCheck == result.op = "comprehensive_risk_check"
IsQuotes == result.op = "calculate_quotes"
IsPlace == result.op = "place_spot_quotes"

(* The four limits as the specification states them, on the data of the   *)
(* last operation: a position with leverage 0 adds no margin.             *)
RECURSIVE StatedMargin(_)
StatedMargin(positions) ==
    IF positions = <<>> THEN 0
    ELSE (IF Head(positions).size # 0 /\ Head(positions).leverage # 0
          THEN Abs(Head(positions).notional \div Head(positions).leverage)
          ELSE 0) + StatedMargin(Tail(positions))

FetchedInventory == IF last_in.balance.kind = "dict" THEN last_in.balance.v ELSE 0
FetchedFreeUSDC == IF last_in.balance.kind = "dict" THEN last_in.balance.usdc ELSE 0

StatedLimitViolated ==
    \/ Abs(FetchedInventory) > MaxInventory
    \/ last_in.volatility > MaxVolatility
    \/ StatedMargin(last_in.positions.list) * MarginBuffer > FetchedFreeUSDC
    \/ daily_trades >= TradesPerDay

Cancels == SelectSeq(call_log, LAMBDA c : c.call = "cancel_order")
Places == SelectSeq(call_log, LAMBDA c : c.call = "place_order")
Ids(calls) == [i \in 1..Len(calls) |-> calls[i].id]

(* C1: a cycle whose ticker read succeeded and whose fetched data breaks  *)
(* one of the four limits fails with trading_paused set, leaves no        *)
(* tracked order and places nothing.                                      *)
C1_UnsafeCyclePauses ==
    (IsCycle /\ last_in.ticker.present /\ StatedLimitViolated) =>
        /\ ~result.success
        /\ result.trading_paused_flag
        /\ current_spot_orders = <<>>
        /\ Places = <<>>

(* C2: after a comprehensive_risk_check has returned, the gate is paused  *)
(* exactly when the call found violations and is_safe exactly when it     *)
(* found none; a gate that was paused and is allowed now got there by a   *)
(* check in which each of the four checks passed.                         *)
C2_PausedIffViolations ==
    /\ (IsRiskCheck /\ result.outcome = "returned") =>
           /\ trading_paused <=> result.violations # <<>>
           /\ result.is_safe <=> result.violations = <<>>
    /\ (last_in.paused_before /\ ~trading_paused) =>
           /\ IsRiskCheck /\ result.outcome = "returned"
           /\ CheckInventoryLimits(last_in.inventory).safe
           /\ CheckVolatilityLimits(last_in.volatility).safe
           /\ CheckMarginRequirements(last_in.balance,
                                      last_in.positions.list).safe
           /\ CheckDailyTradeLimit(daily_trades).safe

C2_Resumed ==
    IsRiskCheck /\ result.outcome = "returned"
    /\ last_in.paused_before /\ ~trading_paused

(* C3: a cycle whose ticker read succeeded and whose fetched balance and  *)
(* positions break no limit returns success=true with its quotes placed.  *)
C3_SafeCycleSucceeds ==
    (IsCycle /\ last_in.ticker.present /\ last_in.balance.kind = "dict"
     /\ ~StatedLimitViolated) =>
        result.success /\ result.quotes # <<>>

(* C4: a cycle without a ticker fails with "Unable to get ticker" and     *)
(* touches neither the gate, the tracked orders, last_mid_price nor the   *)
(* exchange.                                                              *)
C4_NoTickerNoEffect ==
    [][(result'.op = "execute_strategy_cycle" /\ ~last_in'.ticker.present) =>
           /\ result'.outcome = "returned"
           /\ ~result'.success
           /\ result'.error = "Unable to get ticker"
           /\ ~result'.trading_paused_flag
           /\ call_log' = <<>>
           /\ UNCHANGED <<gate_vars, current_spot_orders, last_mid_price,
                          next_order_id>>]_vars

C4_NoTickerWithState ==
    /\ IsCycle /\ ~last_in.ticker.present
    /\ last_in.balance.kind = "dict" /\ last_in.positions.present
    /\ current_spot_orders # <<>> /\ daily_trades > 0 /\ last_mid_price > 0

(* C5: a cycle always returns a result; a result that is not a success    *)
(* carries a non-empty error, and a cycle in which a step failed (no      *)
(* ticker, or the risk check raised) is not a success.                    *)
C5_CycleNeverRaises ==
    IsCycle =>
        /\ result.outcome = "returned"
        /\ result.success \/ result.error # ""
        /\ (~last_in.ticker.present \/ UpdateInventoryRaises(last_in.inventory))
               => ~result.success

C5_ExceptionCaught ==
    IsCycle /\ last_in.ticker.present /\ ~result.success
    /\ result.error = "unsupported format string passed to dict.__format__"

(* C6: place_spot_quotes first asks to cancel each tracked order, in      *)
(* order, and only then places; afterwards the tracked orders are the     *)
(* ids accepted in this call, one bid and one ask at most per tier, none  *)
(* of them tracked before.                                                *)
C6_CancelThenPlace ==
    [][result'.op = "place_spot_quotes" =>
           LET cancels == SelectSeq(call_log',
                                    LAMBDA c : c.call = "cancel_order")
               places == SelectSeq(call_log',
                                   LAMBDA c : c.call = "place_order")
               accepted == SelectSeq(places, LAMBDA c : c.ok)
           IN /\ call_log' = cancels \o places
              /\ Ids(cancels) = current_spot_orders
              /\ current_spot_orders' = Ids(accepted)
              /\ current_spot_orders' = result'.order_ids
              /\ Len(current_spot_orders') <= 2 * order_tiers
              /\ Range(current_spot_orders') \cap Range(current_spot_orders)
                     = {}
              /\ \A t \in 1..Len(result'.quotes) :
                     \A side \in {"buy", "sell"} :
                         Cardinality({i \in 1..Len(places) :
                                         places[i].tier = t
                                         /\ places[i].side = side})
                             = IF result'.quotes[t].size > 0 THEN 1 ELSE 0
          ]_vars

C6_Replaced ==
    IsPlace /\ Cancels # <<>> /\ Len(current_spot_orders) >= 2

(* C7: every tier of calculate_quotes has bid < ask, and ask - bid grows  *)
(* strictly from each tier to the next.                                   *)
C7_BidBelowAskWidening ==
    IsQuotes =>
        /\ \A i \in 1..Len(result.quotes) :
               result.quotes[i].bid < result.quotes[i].ask
        /\ \A i \in 1..(Len(result.quotes) - 1) :
               result.quotes[i].ask - result.quotes[i].bid
                   < result.quotes[i + 1].ask - result.quotes[i + 1].bid

C7_ThreeTiers ==
    IsQuotes /\ Len(result.quotes) = 3 /\ last_in.mid_price > 0

(* the size the specification gives tier i of n *)
StatedTierSize(n, i) ==
    LET raw == (InventorySize * TierFactors[i] * (SizeDen \div 100))
               \div (2 * n)
    IN IF raw < MinOrderSize THEN MinOrderSize
       ELSE IF raw > MaxOrderSize THEN MaxOrderSize ELSE raw

(* C8: calculate_quotes returns order_tiers tiers, each of the clamped    *)
(* weighted size, for every configured tier count.                        *)
C8_OneTierPerConfiguredTier ==
    IsQuotes =>
        /\ Len(result.quotes) = order_tiers
        /\ \A i \in 1..Len(result.quotes) :
               /\ result.quotes[i].size >= MinOrderSize
               /\ result.quotes[i].size <= MaxOrderSize
               /\ i <= Len(TierFactors) =>
                      result.quotes[i].size = StatedTierSize(order_tiers, i)

(* C9: tier i (0-based) of calculate_quotes is mid * (1 -+ h) with        *)
(* h = (s + i * tier_spacing) / 2, s being the aggressive spread of the   *)
(* call.                                                                  *)
C9_TierPricesFromSpread ==
    IsQuotes =>
        \A i \in 1..Len(result.quotes) :
            LET tier_spread == result.spread + (i - 1) * TierSpacing
            IN /\ result.quotes[i].bid
                      = last_in.mid_price * (PriceDen - tier_spread)
               /\ result.quotes[i].ask
                      = last_in.mid_price * (PriceDen + tier_spread)

(* C10: with an open position of leverage 0 among the positions, the      *)
(* margin check reports no error and fails exactly when the margin of     *)
(* the other positions, buffered, exceeds the free USDC.                  *)
HasZeroLeverage ==
    \E i \in 1..Len(last_in.positions.list) :
        /\ last_in.positions.list[i].size # 0
        /\ last_in.positions.list[i].leverage = 0

C10_ZeroLeverageAddsNothing ==
    (IsRiskCheck /\ result.outcome = "returned" /\ HasZeroLeverage) =>
        LET needed == StatedMargin(last_in.positions.list) * MarginBuffer
            short == needed > FetchedFreeUSDC
        IN /\ "Error checking margin: division by zero"
                  \notin Range(result.violations)
           /\ short <=> ("Insufficient margin: " \o Fmt4(FetchedFreeUSDC)
                         \o " < " \o Fmt4(needed))
                            \in Range(result.violations)

(* the number of the four limits, as the specification states them, that  *)
(* the arguments of the last check break                                  *)
StatedFailures ==
    (IF Abs(last_in.inventory.v) > MaxInventory THEN 1 ELSE 0)
    + (IF last_in.volatility > MaxVolatility THEN 1 ELSE 0)
    + (IF StatedMargin(last_in.positions.list) * MarginBuffer
              > last_in.balance.usdc THEN 1 ELSE 0)
    + (IF daily_trades >= TradesPerDay THEN 1 ELSE 0)

(* C11: the violations list a comprehensive_risk_check returns has one    *)
(* entry per failing check and none for a passing one: inventory fails    *)
(* iff |inventory| > max_inventory, volatility iff above max_volatility,  *)
(* margin iff the buffered margin of the open positions exceeds the free  *)
(* USDC, the trade count iff daily_trades >= trades_per_day.              *)
C11_OneEntryPerFailingCheck ==
    (IsRiskCheck /\ result.outcome = "returned") =>
        Len(result.violations) = StatedFailures

(* C12: a check that runs on a date other than the last reset date sets   *)
(* the daily trade counter to 0 and records the date; a check on the      *)
(* date of the last reset leaves the counter alone; nothing else lowers   *)
(* the counter.                                                           *)
C12_OneResetPerDay ==
    [][LET check == result'.op = "comprehensive_risk_check"
                    /\ today' = today
       IN /\ (check /\ last_reset_date # today) =>
                 (daily_trades' = 0 /\ last_reset_date' = today)
          /\ (check /\ last_reset_date = today) =>
                 (daily_trades' = daily_trades
                  /\ last_reset_date' = last_reset_date)
          /\ daily_trades' < daily_trades =>
                 (check /\ last_reset_date # today)]_vars

C12_ResetAfterRollover ==
    /\ IsRiskCheck /\ today > 1 /\ last_reset_date = today
    /\ last_in.trades_before > 0 /\ daily_trades = 0

AllChecksPass ==
    /\ Abs(last_in.inventory.v) <= MaxInventory
    /\ CheckInventoryLimits(last_in.inventory).safe
    /\ CheckVolatilityLimits(last_in.volatility).safe
    /\ CheckMarginRequirements(last_in.balance, last_in.positions.list).safe
    /\ CheckDailyTradeLimit(daily_trades).safe

(* C13: when trading is paused and a comprehensive_risk_check runs on     *)
(* inputs that break none of the four limits (the inventory, or the base  *)
(* currency held when a balance is passed for it, within max_inventory),  *)
(* trading is allowed after the call.                                     *)
C13_PauseClearsOnSafeCheck ==
    [][(trading_paused /\ result'.op = "comprehensive_risk_check"
        /\ today' = today /\ AllChecksPass') =>
           ~trading_paused']_vars

---------------------------------------------------------------------------
(* The caches *)

(* what a lookup at the current time owes for an entry stored at time s:  *)
(* the stored value while clock_ms - s < ttl, nothing from then on        *)
StatedLookup(cache, key, ttl) ==
    IF key \in DOMAIN cache /\ clock_ms - cache[key].timestamp < ttl
    THEN <<cache[key].data>>
    ELSE <<>>

StoredNow(cache, call) ==
    /\ call.key \in DOMAIN cache
    /\ cache[call.key] = [data |-> call.value[1], timestamp |-> clock_ms]

(* a calculation answers from a fresh entry of its cache and never hands  *)
(* out an entry that has expired                                          *)
StatedCalculation(cache, call) ==
    IF StatedLookup(cache, call.key, CacheTtl) # <<>>
    THEN call.hit /\ call.value = StatedLookup(cache, call.key, CacheTtl)
    ELSE /\ ~call.hit
         /\ call.key \in DOMAIN cache => call.value[1] # cache[call.key].data

(* C14: for each cache kind (ticker 1 s, order book 2 s, OHLCV 60 s, ATR  *)
(* and volatility 180 s) a store at time s keeps the value with time s,   *)
(* and a lookup at time t returns exactly the stored value when           *)
(* t - s < TTL and nothing when t - s >= TTL; an expired entry is never   *)
(* returned.                                                              *)
C14_CacheRoundTrip ==
    [][clock_ms' = clock_ms =>
         /\ ret'.op = "cache_price_data" => StoredNow(price_cache', ret')
         /\ ret'.op = "cache_order_book" => StoredNow(order_book_cache', ret')
         /\ ret'.op = "cache_ohlcv_data" => StoredNow(ohlcv_cache', ret')
         /\ ret'.op = "get_cached_price" =>
               ret'.value = StatedLookup(price_cache, ret'.key, PriceCacheTtl)
         /\ ret'.op = "get_cached_order_book" =>
               ret'.value = StatedLookup(order_book_cache, ret'.key,
                                         OrderBookCacheTtl)
         /\ ret'.op = "get_cached_ohlcv" =>
               ret'.value = StatedLookup(ohlcv_cache, ret'.key, OhlcvCacheTtl)
         /\ ret'.op = "calculate_atr" => StatedCalculation(atr_cache, ret')
         /\ ret'.op = "calculate_volatility" =>
               StatedCalculation(volatility_cache, ret')]_vars

(* an ATR is asked for at the very millisecond its entry of time 0 (the   *)
(* volatility derived from it is still there) has reached the TTL, and is *)
(* recomputed                                                             *)
C14_ExpiredAtrRecomputed ==
    /\ ret.op = "calculate_atr" /\ ret.at = CacheTtl /\ ~ret.hit
    /\ ret.value[1].v > 0
    /\ \E key \in DOMAIN volatility_cache :
          /\ volatility_cache[key].timestamp = 0
          /\ volatility_cache[key].data.v > 0

---------------------------------------------------------------------------
(* The Volatility Estimator *)

IsEstimate == ret.op \in {"calculate_atr", "calculate_volatility"}

(* the age of the returned value at the moment it is returned, counted    *)
(* from when the candles it was derived from were obtained                *)
ReturnedAge == ret.at - ret.value[1].obtained

(* C15: every value returned by calculate_atr or calculate_volatility is  *)
(* at most cache_ttl (180 s) old when it is returned, the age counted     *)
(* from when the market data it was derived from was obtained.            *)
C15_ReturnedAtMostTtlOld == IsEstimate => ReturnedAge <= CacheTtl

---------------------------------------------------------------------------
(* The rate limiter *)

(* less than the minimum interval since the last time the name was asked  *)
(* about, whether that call was allowed or denied                         *)
TooSoonAfterInvocation(operation) ==
    /\ operation \in DOMAIN last_invocation
    /\ clock_ms - last_invocation[operation] < MinApiInterval

(* C16: rate_limit_api_call(op) returns false exactly when less than the  *)
(* minimum interval (50 ms) has elapsed since the previous invocation     *)
(* with the same operation name, allowed or denied, and true otherwise;   *)
(* other names have no influence.                                         *)
C16_FalseIffWithinIntervalOfLastInvocation ==
    [][(ret'.op = "rate_limit_api_call" /\ clock_ms' = clock_ms) =>
          (ret'.allowed <=> ~TooSoonAfterInvocation(ret'.key))]_vars

---------------------------------------------------------------------------
(* The fetch workers *)

WorkersFinished == cycle_pc \in {"processing", "idle"} /\ Live(worker_pc) = {}

InWindow(sample) == \E i \in 1..Len(api_call_times) : api_call_times[i] = sample

(* C17: when the three fetch workers of a cycle record telemetry          *)
(* concurrently no update is lost: after all of them have finished,       *)
(* api_call_count equals the number of record_api_call invocations and    *)
(* every recorded sample is in the rolling window.                        *)
C17_NoLostTelemetry ==
    WorkersFinished =>
       /\ api_call_count = Len(recorded)
       /\ \A i \in 1..Len(recorded) : InWindow(recorded[i])

Started(cycle) == {t \in ThreadIds(cycle) : worker_pc[t] # "created"}

(* C18: in every cycle exactly three fetch workers are started; the rest  *)
(* of the cycle begins only after all three have terminated, no worker is *)
(* running when the cycle returns, and the number of live workers never   *)
(* exceeds three.                                                         *)
C18_WorkersJoinedBeforeProcessing ==
    /\ Cardinality(Live(worker_pc)) <= WorkerCount
    /\ cycle_pc \in {"joining", "processing"} =>
          /\ DOMAIN worker_pc = ThreadIds(cycles)
          /\ Cardinality(Started(cycles)) = WorkerCount
    /\ cycle_pc = "processing" =>
          \A t \in DOMAIN worker_pc : worker_pc[t] = "done"
    /\ cycle_pc = "idle" => DOMAIN worker_pc = {}

(* the rest of a cycle is reached after its workers ran to their end, the *)
(* one started last having recorded first                                 *)
C18_JoinedOutOfOrder ==
    /\ cycle_pc = "processing"
    /\ Len(recorded) = WorkerCount
    /\ recorded[1].operation = "get_positions"
    /\ recorded[WorkerCount].operation = "get_ticker"

---------------------------------------------------------------------------
(* Telemetry and the clearing of the caches *)

(* the last k of the samples recorded so far, in recording order *)
MostRecent(k) == SubSeq(recorded, Len(recorded) - k + 1, Len(recorded))

(* C19: after any sequence of record_api_call invocations the rolling     *)
(* window holds at most 1000 samples, exactly the most recent             *)
(* min(n, 1000) recorded ones in recording order, and api_call_count is   *)
(* the number n of invocations.                                           *)
C19_WindowHoldsMostRecent ==
    /\ Len(api_call_times) <= WindowCapacity
    /\ api_call_times = MostRecent(Min2(Len(recorded), WindowCapacity))
    /\ api_call_count = Len(recorded)

(* two samples more than the window holds were recorded: the first two    *)
(* are gone                                                               *)
C19_OldestDropped ==
    /\ Len(recorded) = WindowCapacity + 2
    /\ Len(api_call_times) = WindowCapacity
    /\ api_call_times[1] = recorded[3]
    /\ api_call_times[1] # recorded[1]

IsClear == ret'.op = "clear_cache" /\ clock_ms' = clock_ms

(* C20: clear_cache removes every cached ticker and order-book entry, so  *)
(* that every lookup that follows is a miss, and leaves the rate-limiter  *)
(* timestamps, the call counter, the rolling window and the               *)
(* per-operation timings unchanged.                                       *)
C20_ClearDropsCachesOnly ==
    [][IsClear =>
         /\ DOMAIN price_cache' = {} /\ DOMAIN order_book_cache' = {}
         /\ \A symbol \in CacheSymbols :
               /\ GetCachedPrice(price_cache', symbol, clock_ms').value = <<>>
               /\ GetCachedOrderBook(order_book_cache', symbol,
                                     clock_ms').value = <<>>
         /\ UNCHANGED <<last_api_call, api_call_count, api_call_times,
                        operation_times>>]_vars

(* a clearing that dropped a ticker and an order book while the limiter   *)
(* and the telemetry held data                                            *)
C20_ClearedWithTelemetry ==
    /\ ret.op = "clear_cache" /\ ret.dropped = 2
    /\ DOMAIN price_cache = {} /\ DOMAIN order_book_cache = {}
    /\ DOMAIN last_api_call # {} /\ DOMAIN operation_times # {}
    /\ api_call_count > 0 /\ Len(api_call_times) > 0

---------------------------------------------------------------------------
(* The ATR *)

AtrKey == CacheKey("SOL/USDC", Timeframe, AtrPeriod)

OhlcvKey == CacheKey("SOL/USDC", Timeframe, AtrPeriod + 1)

IsAtrComputed == ret.op = "calculate_atr" /\ ~ret.hit

(* the candles the last calculation had: those in the OHLCV cache, none   *)
(* when the cache holds none                                              *)
CandlesHad ==
    IF OhlcvKey \in DOMAIN ohlcv_cache
    THEN ohlcv_cache[OhlcvKey].data.candles
    ELSE <<>>

(* the true range of candle i: the largest of high - low and the          *)
(* distances of high and of low from the close before                     *)
StatedTrueRange(candles, i) ==
    LET three == {candles[i].high - candles[i].low,
                  Abs(candles[i].high - candles[i - 1].close),
                  Abs(candles[i].low - candles[i - 1].close)}
    IN CHOOSE m \in three : \A x \in three : m >= x

RECURSIVE StatedSum(_, _, _)
StatedSum(candles, from, to) ==
    IF from > to THEN 0
    ELSE StatedTrueRange(candles, to) + StatedSum(candles, from, to - 1)

(* C21: with at least period + 1 candles and no fresh cache entry         *)
(* calculate_atr returns the arithmetic mean of the last `period` true    *)
(* ranges; 14 true ranges all equal to 1 give ATR 1.                      *)
C21_AtrIsMeanOfLastTrueRanges ==
    (IsAtrComputed /\ Len(CandlesHad) >= AtrPeriod + 1) =>
       /\ ret.value[1].v * AtrPeriod =
             StatedSum(CandlesHad, Len(CandlesHad) - AtrPeriod + 1,
                       Len(CandlesHad))
       /\ CandlesHad = FullCandles => ret.value[1].v = 1

(* an ATR of 3 from sixteen candles whose first true range is 30 *)
C21_AtrOfGapCandles ==
    /\ IsAtrComputed
    /\ CandlesHad = GapCandles
    /\ ret.value[1].v = 3

(* C22: with fewer than period + 1 candles, an empty or failed fetch      *)
(* included, calculate_atr returns 0.0 and stores no ATR cache entry, so  *)
(* that the next call computes again.                                     *)
C22_TooFewCandlesFailSoft ==
    (IsAtrComputed /\ Len(CandlesHad) < AtrPeriod + 1) =>
       /\ ret.value[1].v = 0
       /\ AtrKey \notin DOMAIN atr_cache

(* fourteen candles came and were kept, and the answer was 0.0 *)
C22_FourteenCandles ==
    /\ IsAtrComputed
    /\ Len(CandlesHad) = AtrPeriod
    /\ ret.value[1].v = 0

---------------------------------------------------------------------------
(* The spread and the no-fill counter *)

IsQuotesStep == result'.op = "calculate_quotes" /\ now' = now /\ today' = today

(* the spread of a call made with the 20% reduction, and without it *)
SpreadWith(reduced) ==
    CalculateAggressiveSpread(last_in'.volatility,
                              IF reduced THEN NoFillLimit + 1 ELSE 0,
                              daily_volume).spread

(* C23: calculate_aggressive_spread with the no-fill counter at 5 or more *)
(* multiplies the clamped spread by 0.8 and resets the counter to 0; with *)
(* the counter below 5 it applies no reduction and leaves the counter.    *)
C23_ReductionFromFiveNoFills ==
    [][IsQuotesStep =>
         IF consecutive_no_fills >= 5
         THEN consecutive_no_fills' = 0 /\ result'.spread = SpreadWith(TRUE)
         ELSE /\ consecutive_no_fills' = consecutive_no_fills
              /\ result'.spread = SpreadWith(FALSE)]_vars

---------------------------------------------------------------------------
(* Hedge and funding *)

IsHedge == result.op = "place_hedge_order"

(* the hedge target of the call and its distance from the position held *)
StatedTarget == (0 - last_in.inventory.v) * Leverage

StatedDelta == StatedTarget - last_in.perp_position

StatedMagnitude(x) == IF x < 0 THEN 0 - x ELSE x

(* C24: the hedge target is -spot_inventory * leverage; place_hedge_order *)
(* places no order when |target - current| < 0.01 or the perpetual ticker *)
(* is absent, and otherwise exactly one market order on the perpetual     *)
(* symbol for |target - current|, sell below 0 and buy above.             *)
C24_OneHedgeOrderForDelta ==
    IsHedge =>
       IF StatedMagnitude(StatedDelta) * 100 < HedgeDen
          \/ ~last_in.perp_ticker
       THEN call_log = <<>> /\ ~result.hedge_order
       ELSE /\ Len(call_log) = 1
            /\ call_log[1].call = "place_order"
            /\ call_log[1].symbol = PerpSymbol
            /\ call_log[1].order_type = "market"
            /\ call_log[1].amount = StatedMagnitude(StatedDelta)
            /\ StatedDelta < 0 => call_log[1].side = "sell"
            /\ StatedDelta > 0 => call_log[1].side = "buy"

(* an adjustment of exactly 0.01 SOL is sold *)
C24_HedgeAtThreshold ==
    /\ IsHedge /\ Len(call_log) = 1
    /\ call_log[1].amount * 100 = HedgeDen
    /\ call_log[1].side = "sell" /\ result.hedge_order

IsFunding == result.op = "calculate_funding_income"

(* C25: calculate_funding_income returns |perp_position| * last_price *   *)
(* funding_rate when the spot ticker is there, which is not negative for  *)
(* a rate that is not and the same for a position and its opposite, and   *)
(* 0.0 when the ticker is absent.                                         *)
C25_FundingIncome ==
    IsFunding =>
       IF last_in.ticker.present
       THEN /\ result.funding_income =
                  StatedMagnitude(last_in.perp_position)
                     * last_in.ticker.last * last_in.funding_rate
            /\ last_in.funding_rate >= 0 => result.funding_income >= 0
            /\ result.funding_income =
                  CalculateFundingIncome(0 - last_in.perp_position,
                                         last_in.funding_rate, last_in.ticker)
       ELSE result.funding_income = 0

(* a short of 50 SOL at 143 and a rate of 0.0002: 1.43 *)
C25_ShortFifty ==
    /\ IsFunding /\ last_in.perp_position = -50000
    /\ last_in.funding_rate = 2 /\ last_in.ticker.last = 143
    /\ result.funding_income = 14300000

---------------------------------------------------------------------------
(* The daily volume *)

(* a step of an operation that looks at the volume's reset date *)
IsVolumeStep ==
    /\ result'.op \in {"reset_daily_volume", "update_volume_metrics",
                       "execute_strategy_cycle"}
    /\ today' = today

(* the trade size the step adds: the positive argument of an update *)
StatedAdded ==
    IF result'.op = "update_volume_metrics" /\ last_in'.trade_size > 0
    THEN last_in'.trade_size ELSE 0

(* C26: daily_volume is the sum of the positive trade sizes passed to     *)
(* update_volume_metrics since the last daily reset, and it is reset to 0 *)
(* exactly at the first reset_daily_volume, update_volume_metrics or      *)
(* cycle that runs after the date has changed, never twice for one date.  *)
C26_VolumeSumsSinceDailyReset ==
    [][IF IsVolumeStep
       THEN /\ last_volume_reset' = today
            /\ daily_volume' = (IF last_volume_reset # today
                                THEN 0 ELSE daily_volume) + StatedAdded
       ELSE /\ last_volume_reset' = last_volume_reset
            /\ daily_volume' = daily_volume]_vars

(* the volume of the first day dropped by a reset on the second *)
C26_ResetOnSecondDay ==
    /\ result.op = "reset_daily_volume"
    /\ last_in.volume_before = 900
    /\ daily_volume = 0 /\ last_volume_reset = 2 /\ today = 2

---------------------------------------------------------------------------
(* The retries of a gateway read *)

(* a read that went upstream *)
IsUpstreamRead == ret.op \in GatewayReads /\ ret.retry # "none"

(* the attempts, of the first three, that upstream answers *)
Answered == {i \in 1..3 : ret.answers[i]}

(* C27: _retry_api_call invokes the upstream function at most 3 times,    *)
(* returns the first successful result without further attempts and       *)
(* raises after the last failed attempt; get_ticker, get_balance and      *)
(* get_positions then return None to the core instead of raising.         *)
C27_BoundedRetriesThenDefinitive ==
    IsUpstreamRead =>
       /\ ret.attempts \in 1..3
       /\ IF Answered # {}
          THEN /\ ret.retry = "returned"
               /\ ret.attempts \in Answered
               /\ \A i \in Answered : ret.attempts <= i
               /\ ret.value = <<UpstreamData(ret.op)>>
          ELSE /\ ret.retry = "raised"
               /\ ret.attempts = 3
               /\ ret.value = <<>>

(* three failed attempts, though a fourth would have been answered *)
C27_GaveUpAfterThree ==
    /\ IsUpstreamRead /\ ret.op = "get_ticker"
    /\ ret.answers = <<FALSE, FALSE, FALSE, TRUE>>
    /\ ret.attempts = 3 /\ ret.retry = "raised" /\ ret.value = <<>>

---------------------------------------------------------------------------
(* What calculate_quotes returns *)

(* the ATR values an adjusted spread may have been computed from *)
AtrValues == {0, 1, 3}

(* a tier's third component is the number spread: size / SizeDen equals   *)
(* spread / SpreadScale, both sides divided by 4 * 10 ^ 3                 *)
ThirdIsSpread(tier, spread) ==
    tier.size * (SpreadScale \div (4 * 10 ^ 3))
        = spread * (SizeDen \div (4 * 10 ^ 3))

---------------------------------------------------------------------------
(* The upstream reads of the volatility estimator *)

(* an estimator call that asked upstream *)
IsEstimatorRead ==
    /\ ret.op \in {"calculate_atr", "calculate_volatility"}
    /\ ret.upstream > 0

(* the samples the telemetry window holds of the time of the call *)
RecordedAt(t) ==
    {i \in 1..Len(api_call_times) : api_call_times[i].timestamp = t}

(* C29: every upstream ticker or OHLCV read of calculate_volatility and   *)
(* calculate_atr goes through the limiter: a rate_limit_api_call check    *)
(* comes before it and record_api_call records it.                        *)
C29_EstimatorReadsThroughLimiter ==
    IsEstimatorRead =>
       /\ \E operation \in DOMAIN last_invocation :
              last_invocation[operation] = ret.at
       /\ Cardinality(RecordedAt(ret.at)) >= ret.upstream
       /\ api_call_count >= ret.upstream

---------------------------------------------------------------------------
(* Orders whose cancellation was refused *)

(* the ids for which cancel_order returned False in the last operation *)
RefusedCancels ==
    {call_log[i].id : i \in {j \in 1..Len(call_log) :
                               /\ call_log[j].call = "cancel_order"
                               /\ ~call_log[j].ok}}

(* C30: no order is orphaned by cancellation: an order placed through     *)
(* place_spot_quotes whose cancel_order returned False is still in        *)
(* current_spot_orders, so that a later cancel_spot_orders retries it.    *)
C30_RefusedCancellationKept ==
    \A id \in RefusedCancels : id \in Range(current_spot_orders)

---------------------------------------------------------------------------
(* The volatility of a failed ATR *)

VolatilityKey == AtrKey \o "_vol"

(* a calculate_volatility that computed, on an ATR that failed soft: a    *)
(* computed ATR is in the ATR cache when the call returns                 *)
IsVolatilityOfFailedAtr ==
    /\ ret.op = "calculate_volatility" /\ ~ret.hit
    /\ AtrKey \notin DOMAIN atr_cache

(* C33: calculate_volatility caches a volatility only when it comes from  *)
(* a successfully computed ATR: after calculate_atr failed soft no 0.0 is *)
(* cached, so that the next call recomputes from upstream.                *)
C33_NoVolatilityCachedOfFailedAtr ==
    IsVolatilityOfFailedAtr => VolatilityKey \notin DOMAIN volatility_cache

---------------------------------------------------------------------------
(* The daily trade counter over the cycles *)

(* a step of a cycle that read its ticker *)
IsTickerCycleStep ==
    /\ result'.op = "execute_strategy_cycle"
    /\ last_in'.ticker.present
    /\ today' = today

(* the counter the cycle's risk check works on: 0 on a new date *)
CounterOfTheDay == IF last_reset_date # today THEN 0 ELSE daily_trades

---------------------------------------------------------------------------
(* The pause state and its reason *)

(* the violations of a list joined by "; " *)
RECURSIVE StatedReason(_)
StatedReason(violations) ==
    IF violations = <<>> THEN ""
    ELSE IF Tail(violations) = <<>> THEN Head(violations)
    ELSE Head(violations) \o "; " \o StatedReason(Tail(violations))

---------------------------------------------------------------------------
(* The daily volume over the cycles *)

IsCycleStep == result'.op = "execute_strategy_cycle" /\ today' = today

(* C37: execute_strategy_cycle never increases daily_volume: over a       *)
(* cycle, successful, paused or failed, it stays equal or is reset to 0   *)
(* on a date rollover, so that it changes only through the                *)
(* update_volume_metrics(trade_size > 0) calls made outside the cycle.    *)
C37_CycleNeverAddsVolume ==
    [][IsCycleStep =>
         /\ daily_volume' <= daily_volume
         /\ daily_volume' = IF last_volume_reset # today
                            THEN 0 ELSE daily_volume
      ]_vars

(* a cycle with a ticker that kept the volume of two trades *)
C37_VolumeKeptByCycle ==
    /\ IsCycle /\ last_in.ticker.present
    /\ daily_volume = 900 /\ last_volume_reset = today

---------------------------------------------------------------------------
(* The polling loop of MarketMaker.run, and the shutdown.  The handlers    *)
(* of SIGINT and SIGTERM are installed by the constructor and call         *)
(* stop(); the interpreter runs a handler between two instructions of the  *)
(* main thread, so stop() can fall between any two steps of run().  The    *)
(* sleeps of the loop are not steps of their own: nothing the loop decides *)
(* on reads the clock, and the caches it fills do not age here.            *)

SkipThreshold == 2000              \* should_skip_cycle: more than 2 s
CacheClearEvery == 10              \* caches are cleared every 10 cycles

(* time.time() - cycle_start_time of a strategy cycle, in ms *)
CycleTimes == {1000, SkipThreshold, SkipThreshold + 1}

(* should_skip_cycle: the measured volatility is not read *)
ShouldSkipCycle(last, current_volatility) == last > SkipThreshold

(* connect_to_exchange, whose failure makes run() return *)
MainConnect ==
    /\ main_pc = "constructed"
    /\ \E connected \in BOOLEAN :
          main_pc' = IF connected THEN "validate" ELSE "cleanup"
    /\ UNCHANGED <<core_vars, layer_vars, option_vars, lookup_vars, running,
                   last_cycle_time, cycle_count, stop_called>>

(* validate_configuration, whose failure makes run() return *)
MainValidate ==
    /\ main_pc = "validate"
    /\ \E valid \in BOOLEAN :
          main_pc' = IF valid THEN "start" ELSE "cleanup"
    /\ UNCHANGED <<core_vars, layer_vars, option_vars, lookup_vars, running,
                   last_cycle_time, cycle_count, stop_called>>

(* self.running = True; cycle_count = 0 *)
MainStart ==
    /\ main_pc = "start"
    /\ running' = TRUE
    /\ cycle_count' = 0
    /\ main_pc' = "while"
    /\ UNCHANGED <<core_vars, layer_vars, option_vars, lookup_vars,
                   last_cycle_time, stop_called>>

(* while self.running *)
MainWhile ==
    /\ main_pc = "while"
    /\ main_pc' = IF running THEN "measure" ELSE "cleanup"
    /\ UNCHANGED <<core_vars, layer_vars, option_vars, lookup_vars, running,
                   last_cycle_time, cycle_count, stop_called>>

(* the head of an iteration: the count goes up and the volatility of the   *)
(* spot symbol is measured                                                 *)
MainMeasure ==
    /\ main_pc = "measure"
    /\ cycle_count' = (cycle_count + 1) % CacheClearEvery
    /\ \E ticker \in VolTickers, upstream \in OhlcvReads :
          \E c \in {CalculateVolatility(ohlcv_cache, atr_cache,
                                        volatility_cache, "SOL/USDC",
                                        AtrPeriod, Timeframe, clock_ms,
                                        ticker, upstream)} :
             /\ ohlcv_cache' = c.ohlcv_cache
             /\ atr_cache' = c.atr_cache
             /\ volatility_cache' = c.volatility_cache
             /\ ret' = [Ret("calculate_volatility",
                            CacheKey("SOL/USDC", Timeframe, AtrPeriod)
                                \o "_vol",
                            <<c.value>>, clock_ms)
                           EXCEPT !.hit = c.hit, !.upstream = c.reads]
    /\ main_pc' = "test"
    /\ UNCHANGED <<core_vars, clock_ms, ticks, optimizer_vars, worker_vars,
                   option_vars, lookup_vars, running, last_cycle_time,
                   stop_called>>

(* if self.should_skip_cycle(volatility): sleep and continue; the         *)
(* measured volatility is a local of the iteration                        *)
MainSkipTest ==
    /\ main_pc = "test"
    /\ main_pc' = IF ShouldSkipCycle(last_cycle_time, ret.value[1])
                  THEN "skipped" ELSE "cycle"
    /\ ret' = NoReturn
    /\ UNCHANGED <<core_vars, clock_ms, ticks, optimizer_vars,
                   volatility_vars, worker_vars, option_vars, lookup_vars,
                   running, last_cycle_time, cycle_count, stop_called>>

(* time.sleep(update_interval); continue *)
MainSkipped ==
    /\ main_pc = "skipped"
    /\ main_pc' = "while"
    /\ UNCHANGED <<core_vars, layer_vars, option_vars, lookup_vars, running,
                   last_cycle_time, cycle_count, stop_called>>

(* run_single_cycle: the strategy cycle runs to its return, and its        *)
(* duration is kept, in the except clause as well                          *)
RunSingleCycle ==
    /\ main_pc = "cycle"
    /\ StrategyCycle
    /\ \E cycle_time \in CycleTimes : last_cycle_time' = cycle_time
    /\ main_pc' = "cycled"
    /\ UNCHANGED <<option_vars, lookup_vars, running, cycle_count,
                   stop_called>>

(* the rest of the iteration after the cycle: the sleep, and every tenth   *)
(* cycle the caches of the estimator and of the optimizer are cleared.  An *)
(* exception in the iteration is logged and the loop goes on; only a       *)
(* KeyboardInterrupt leaves the loop.  The result of the cycle is a local  *)
(* of the iteration and is gone with it.                                   *)
MainOutcomes == {"done", "exception", "keyboard_interrupt"}

MainHousekeeping ==
    /\ main_pc = "cycled"
    /\ \E outcome \in MainOutcomes :
          /\ main_pc' = CASE outcome = "keyboard_interrupt" -> "cleanup"
                          [] outcome = "exception" -> "caught"
                          [] OTHER -> "while"
          /\ IF outcome = "done" /\ cycle_count = 0
             THEN /\ ohlcv_cache' = EmptyDict
                  /\ atr_cache' = EmptyDict
                  /\ volatility_cache' = EmptyDict
                  /\ price_cache' = ClearCache(price_cache,
                                               order_book_cache).price_cache
                  /\ order_book_cache' =
                        ClearCache(price_cache,
                                   order_book_cache).order_book_cache
             ELSE UNCHANGED <<volatility_vars, price_cache,
                              order_book_cache>>
    /\ last_in' = NoInput
    /\ call_log' = <<>>
    /\ result' = NoResult
    /\ UNCHANGED <<today, now, gate_vars, config_vars, strategy_vars,
                   exchange_vars, clock_ms, ticks, last_api_call,
                   api_call_count, api_call_times, operation_times, recorded,
                   last_invocation, worker_vars, ret, option_vars,
                   lookup_vars, running, last_cycle_time, cycle_count,
                   stop_called>>

(* except Exception: the error is logged, the loop sleeps and goes on *)
MainCaught ==
    /\ main_pc = "caught"
    /\ main_pc' = "while"
    /\ UNCHANGED <<core_vars, layer_vars, option_vars, lookup_vars, running,
                   last_cycle_time, cycle_count, stop_called>>

(* stop(), from the signal handler: self.running = False *)
MainStop ==
    /\ main_pc # "returned"
    /\ running' = FALSE
    /\ stop_called' = TRUE
    /\ UNCHANGED <<core_vars, layer_vars, option_vars, lookup_vars,
                   last_cycle_time, cycle_count, main_pc>>

(* finally: cleanup(), which cancels the tracked spot orders; run() returns *)
MainCleanup ==
    /\ main_pc = "cleanup"
    /\ \E refused \in Failures(Range(current_spot_orders)) :
          LET c == CancelSpotOrders(current_spot_orders, refused)
          IN /\ current_spot_orders' = c.orders
             /\ call_log' = c.log
    /\ main_pc' = "returned"
    /\ UNCHANGED <<today, now, gate_vars, config_vars, last_mid_price,
                   daily_volume, last_volume_reset, consecutive_no_fills,
                   last_trade_time, exchange_vars, last_in, result,
                   layer_vars, option_vars, lookup_vars, running,
                   last_cycle_time, cycle_count, stop_called>>

(* the steps of the main thread *)
MainThread ==
    \/ MainConnect
    \/ MainValidate
    \/ MainStart
    \/ MainWhile
    \/ MainMeasure
    \/ MainSkipTest
    \/ MainSkipped
    \/ RunSingleCycle
    \/ MainHousekeeping
    \/ MainCaught
    \/ MainCleanup

NextMain == MainThread \/ MainStop

SpecMain == Init /\ [][NextMain]_vars

(* the main thread is never held up for ever: it runs whenever it can;     *)
(* nothing obliges a signal to arrive                                      *)
FairSpecMain == Init /\ [][NextMain]_vars /\ WF_vars(MainThread)

---------------------------------------------------------------------------
(* The polling loop over time *)

LoopLeft == main_pc \in {"cleanup", "returned"}

(* C34: an iteration skipped because the last strategy cycle took more     *)
(* than 2 s is followed, unless the loop is left, by an iteration that     *)
(* executes a strategy cycle.                                              *)
C34_SkippedLoopCyclesAgain ==
    (main_pc = "skipped") ~> (main_pc = "cycled" \/ LoopLeft)

(* C38: once stop() has been called, or the loop body has raised, run()    *)
(* returns in the end, and when it has returned no spot order is tracked.  *)
C38_ShutdownReturnsAndCleansUp ==
    /\ stop_called ~> (main_pc = "returned")
    /\ (main_pc = "caught") ~> (main_pc = "returned")
    /\ [](main_pc = "returned" => current_spot_orders = <<>>)

---------------------------------------------------------------------------
(* The market type of the exchange *)

(* the gateway operations, one after the other *)
NextOptions ==
    \/ GatewayReadCall
    \/ GetFundingRateCall
    \/ PlaceOrderCall
    \/ CancelOrderCall
    \/ GetOpenOrdersCall

SpecOptions == Init /\ [][NextOptions]_vars

(* C32: when an operation that switches the market type has returned, the  *)
(* exchange's defaultType is 'spot', whether its upstream call failed or   *)
(* not.                                                                    *)
C32_SpotRestoredAfterSwitchingOp ==
    ret.op \in SwitchingOps => default_type = "spot"

---------------------------------------------------------------------------
(* The market type under the fetch workers *)

(* the fetch phase of the cycles, its reads taken step by step *)
NextFetch ==
    \/ CycleStart
    \/ StartWorker
    \/ FetchEnter
    \/ FetchRequest
    \/ FetchAnswered
    \/ JoinWorkers
    \/ CycleReturn

SpecFetch == Init /\ [][NextFetch]_vars

SpotReads == {"get_ticker", "get_balance"}

(* C31: every request of the ticker read and of the balance read is sent   *)
(* while the exchange's defaultType is 'spot'.                             *)
C31_SpotReadsSentUnderSpot ==
    \A r \in issued : r.op \in SpotReads => r.market = "spot"

---------------------------------------------------------------------------
(* The cache lookups under threads.  get_cached_price,                     *)
(* get_cached_order_book and get_cached_ohlcv have one shape, and take no  *)
(* lock: the test key in cache, the load cache[key], the comparison of the *)
(* entry's age with the lifetime, and del cache[key].  The interpreter may *)
(* switch threads between any two of them; the load and the del raise      *)
(* KeyError when the key is not there.                                     *)

LookupThreads == {1, 2}

LookupOps == {"get_cached_price", "get_cached_order_book", "get_cached_ohlcv"}

LookupKey(op) ==
    IF op = "get_cached_ohlcv"
    THEN CacheKey("SOL/USDC", Timeframe, AtrPeriod + 1) ELSE "SOL/USDC"

LookupTtl(op) ==
    IF op = "get_cached_price" THEN PriceCacheTtl
    ELSE IF op = "get_cached_order_book" THEN OrderBookCacheTtl
    ELSE OhlcvCacheTtl

(* what a lookup has returned, or "raised" *)
Lookup(op, outcome, value) == [op |-> op, outcome |-> outcome, value |-> value]

(* the keys the cache of the lookup op holds *)
LookupKeys(op) ==
    IF op = "get_cached_price" THEN DOMAIN price_cache
    ELSE IF op = "get_cached_order_book" THEN DOMAIN order_book_cache
    ELSE DOMAIN ohlcv_cache

(* a thread calls a lookup *)
LookupStart ==
    /\ \E t \in LookupThreads, op \in LookupOps :
          /\ t \notin DOMAIN lookup_pc
          /\ lookup_pc' = DictPut(lookup_pc, t, "check")
          /\ lookup_ret' = DictPut(lookup_ret, t, Lookup(op, "running", <<>>))
    /\ UNCHANGED <<core_vars, layer_vars, main_vars, option_vars,
                   lookup_entry>>

(* if key in cache *)
LookupCheck ==
    /\ \E t \in DOMAIN lookup_pc :
          LET op == lookup_ret[t].op
          IN /\ lookup_pc[t] = "check"
             /\ IF LookupKey(op) \in LookupKeys(op)
                THEN /\ lookup_pc' = [lookup_pc EXCEPT ![t] = "load"]
                     /\ UNCHANGED lookup_ret
                ELSE /\ lookup_pc' = [lookup_pc EXCEPT ![t] = "done"]
                     /\ lookup_ret' = [lookup_ret EXCEPT ![t] =
                                          Lookup(op, "returned", <<>>)]
    /\ UNCHANGED <<core_vars, layer_vars, main_vars, option_vars,
                   lookup_entry>>

(* cache_entry = cache[key] *)
LookupLoad ==
    /\ \E t \in DOMAIN lookup_pc :
          LET op == lookup_ret[t].op
              key == LookupKey(op)
          IN /\ lookup_pc[t] = "load"
             /\ IF key \in LookupKeys(op)
                THEN /\ lookup_pc' = [lookup_pc EXCEPT ![t] = "compare"]
                     /\ lookup_entry' =
                           DictPut(lookup_entry, t,
                                   IF op = "get_cached_price"
                                   THEN price_cache[key]
                                   ELSE IF op = "get_cached_order_book"
                                   THEN order_book_cache[key]
                                   ELSE ohlcv_cache[key])
                     /\ UNCHANGED lookup_ret
                ELSE /\ lookup_pc' = [lookup_pc EXCEPT ![t] = "done"]
                     /\ lookup_ret' = [lookup_ret EXCEPT ![t] =
                                          Lookup(op, "raised", <<>>)]
                     /\ UNCHANGED lookup_entry
    /\ UNCHANGED <<core_vars, layer_vars, main_vars, option_vars>>

(* if time.time() - cache_entry['timestamp'] < ttl: return the data *)
LookupCompare ==
    /\ \E t \in DOMAIN lookup_pc :
          LET op == lookup_ret[t].op
          IN /\ lookup_pc[t] = "compare"
             /\ lookup_entry' = DictDel(lookup_entry, t)
             /\ IF clock_ms - lookup_entry[t].timestamp < LookupTtl(op)
                THEN /\ lookup_pc' = [lookup_pc EXCEPT ![t] = "done"]
                     /\ lookup_ret' =
                           [lookup_ret EXCEPT ![t] =
                               Lookup(op, "returned",
                                      <<lookup_entry[t].data>>)]
                ELSE /\ lookup_pc' = [lookup_pc EXCEPT ![t] = "delete"]
                     /\ UNCHANGED lookup_ret
    /\ UNCHANGED <<core_vars, layer_vars, main_vars, option_vars>>

(* del cache[key]; return None *)
LookupDelete ==
    /\ \E t \in DOMAIN lookup_pc :
          LET op == lookup_ret[t].op
              key == LookupKey(op)
              there == key \in LookupKeys(op)
          IN /\ lookup_pc[t] = "delete"
             /\ lookup_pc' = [lookup_pc EXCEPT ![t] = "done"]
             /\ lookup_ret' = [lookup_ret EXCEPT ![t] =
                                  Lookup(op, IF there THEN "returned"
                                             ELSE "raised", <<>>)]
             /\ price_cache' = IF there /\ op = "get_cached_price"
                               THEN DictDel(price_cache, key)
                               ELSE price_cache
             /\ order_book_cache' =
                   IF there /\ op = "get_cached_order_book"
                   THEN DictDel(order_book_cache, key) ELSE order_book_cache
             /\ ohlcv_cache' = IF there /\ op = "get_cached_ohlcv"
                               THEN DictDel(ohlcv_cache, key)
                               ELSE ohlcv_cache
    /\ UNCHANGED <<core_vars, main_vars, option_vars, lookup_entry, clock_ms,
                   ticks, last_api_call, api_call_count, api_call_times,
                   operation_times, recorded, last_invocation, atr_cache,
                   volatility_cache, worker_vars, ret>>

(* the caller has the result and the thread is free for its next call *)
LookupEnd ==
    /\ \E t \in DOMAIN lookup_pc :
          /\ lookup_pc[t] = "done"
          /\ lookup_pc' = DictDel(lookup_pc, t)
          /\ lookup_ret' = DictDel(lookup_ret, t)
    /\ UNCHANGED <<core_vars, layer_vars, main_vars, option_vars,
                   lookup_entry>>

(* stores, the passing of time, and lookups by two threads *)
NextLookup ==
    \/ CachePriceDataCall
    \/ CacheOrderBookCall
    \/ CacheOhlcvDataCall
    \/ CacheTick
    \/ LookupStart
    \/ LookupCheck
    \/ LookupLoad
    \/ LookupCompare
    \/ LookupDelete
    \/ LookupEnd

SpecLookup == Init /\ [][NextLookup]_vars

(* C39: no lookup fails: a lookup that has ended has returned, whatever    *)
(* another thread's lookup of the same entry did in between.               *)
C39_ConcurrentLookupsNeverFail ==
    \A t \in DOMAIN lookup_ret : lookup_ret[t].outcome # "raised"

====
